---------------------------- MODULE Spec2Model ----------------------------
(***************************************************************************)
(* State-machine model of the trading controller core:                     *)
(*   src/src/state.py                 AppState (event handlers, RiskGate)  *)
(*   src/src/strategies/simple_strategy.py   SimpleStrategy.run            *)
(*   src/src/patterns/base.py         detect_pattern                       *)
(*   src/src/server.py                MT5Handler.do_POST (agent poll)      *)
(*   src/src/gui.py                   MT5ControllerGUI.queue_command       *)
(*                                                                         *)
(* Units (fixed point, all integers):                                      *)
(*   time        half seconds (0.5 s = 1, 1 s = 2, 2 s = 4, 30 s = 60)     *)
(*   prices/atr  price points, 1 point = 0.01                              *)
(*   confidence  hundredths of a percent (85 % = 8500), floor of the real  *)
(*               value: every comparison the code makes is against a whole *)
(*               number of hundredths, so the floor decides it the same    *)
(*   thresholds  hundredths (0.75 = 75)                                    *)
(*   lots        hundredths of a lot                                       *)
(*   money       whole account-currency units                              *)
(***************************************************************************)
EXTENDS Integers, Sequences, FiniteSets, TLC

VARIABLES
    now,                  \* time.time(), in half seconds
    market,               \* AppState.market          (MarketData)
    account,              \* AppState.account         (AccountData)
    settings,             \* AppState.settings        (TradeSettings)
    is_connected,         \* AppState.is_connected
    last_heartbeat,       \* AppState.last_heartbeat
    pending_commands,     \* AppState.pending_commands (list filled by _on_trade_command)
    pending_command,      \* AppState.pending_command  (slot written by gui.queue_command, read by do_POST)
    positions,            \* AppState.positions
    last_trade_time,      \* AppState.last_trade_time
    sent_closures,        \* AppState.sent_closures    (dedupe key -> last-sent time)
    day_start_balance,    \* AppState.day_start_balance
    daily_loss_limit_hit, \* AppState.daily_loss_limit_hit
    last_strategy_eval,   \* AppState.last_strategy_eval
    fusion,               \* inputs and results of the last SimpleStrategy.run call
    ev,                   \* history: the handler that ran in the last step and what it did
    cmd_log,              \* history: every command accepted for sending, in order, with when and by whom
    slot_id,              \* history: index in cmd_log of the command held in pending_command (0: none)
    wire,                 \* history: indices in cmd_log of the commands handed to the agent, in order
    bus,                  \* EventManager._listeners, and the history of its last emit
    evaluating,           \* the evaluation the server thread is in the middle of, if any
    watchdog,             \* the connection watchdog thread: where it is, and when it last decided
    reported              \* how many commands had been accepted when the agent last reported the account

vars == << now, market, account, settings, is_connected, last_heartbeat,
           pending_commands, pending_command, positions, last_trade_time,
           sent_closures, day_start_balance, daily_loss_limit_hit,
           last_strategy_eval, fusion, ev, cmd_log, slot_id, wire, bus, evaluating, watchdog, reported >>

-----------------------------------------------------------------------------
(* Units *)

HALF_SECOND == 1
ONE_SECOND == 2
CONF_SCALE == 100

\* None: no value
None == "None"

Min(a, b) == IF a < b THEN a ELSE b
Max(a, b) == IF a > b THEN a ELSE b
Abs(a) == IF a < 0 THEN 0 - a ELSE a

\* floor(a * b / c) for a, b >= 0, c > 0 without forming a * b
MulDiv(a, b, c) == (a \div c) * b + ((a % c) * b) \div c

-----------------------------------------------------------------------------
(* Pattern classifier: src/src/patterns/base.py detect_pattern.            *)
(* ema20 is the 20-sample EMA of the predictor's rolling window when it    *)
(* holds at least 20 samples, and sma10 otherwise.                         *)

Ema20(history_len, ema, sma10) == IF history_len >= 20 THEN ema ELSE sma10

detect_pattern(rsi, current_price, sma10, ema20) ==
    IF rsi < 20 THEN "oversold"
    ELSE IF rsi > 80 THEN "overbought"
    ELSE IF current_price > sma10 /\ current_price > ema20 /\ rsi > 60 THEN "strong_bullish"
    ELSE IF current_price < sma10 /\ current_price < ema20 /\ rsi < 40 THEN "strong_bearish"
    ELSE IF rsi > 52 /\ current_price > sma10 THEN "bullish"
    ELSE IF rsi < 48 /\ current_price < sma10 THEN "bearish"
    ELSE "neutral"

Patterns == {"neutral", "bullish", "bearish", "strong_bullish", "strong_bearish",
             "oversold", "overbought"}

-----------------------------------------------------------------------------
(* SignalFusion: src/src/strategies/simple_strategy.py SimpleStrategy.run  *)

\* A headline is modelled by what the keyword scan sees in it.
Headline(bull, bear) == [bullish |-> bull, bearish |-> bear]

Direction(predicted_price, current_price) ==
    IF predicted_price - current_price > 0 THEN "UP" ELSE "DOWN"

PatternBoostMut(direction, pattern) ==
    IF pattern \in {"strong_bullish", "strong_bearish"} THEN 40 * CONF_SCALE
    ELSE IF pattern \in {"bullish", "bearish"} THEN 20 * CONF_SCALE
    ELSE IF pattern \in {"oversold", "overbought"} THEN 15 * CONF_SCALE
    ELSE 0

PatternBoost(direction, pattern) ==
    IF direction = "UP"
    THEN IF pattern = "strong_bullish" THEN 40 * CONF_SCALE
         ELSE IF pattern = "bullish" THEN 20 * CONF_SCALE
         ELSE IF pattern = "oversold" THEN 15 * CONF_SCALE
         ELSE 0
    ELSE IF pattern = "strong_bearish" THEN 40 * CONF_SCALE
         ELSE IF pattern = "bearish" THEN 20 * CONF_SCALE
         ELSE IF pattern = "overbought" THEN 15 * CONF_SCALE
         ELSE 0

StochBoost(direction, stoch_k) ==
    IF direction = "UP"
    THEN IF stoch_k < 20 THEN 15 * CONF_SCALE
         ELSE IF stoch_k < 50 THEN 5 * CONF_SCALE
         ELSE 0
    ELSE IF stoch_k > 80 THEN 15 * CONF_SCALE
         ELSE IF stoch_k > 50 THEN 5 * CONF_SCALE
         ELSE 0

RECURSIVE SentimentScore(_)
SentimentScore(headlines) ==
    IF headlines = << >> THEN 0
    ELSE LET h == Head(headlines)
         IN  (IF h.bullish THEN 1 ELSE 0) - (IF h.bearish THEN 1 ELSE 0)
             + SentimentScore(Tail(headlines))

NewsBoost(direction, sentiment_score) ==
    (IF direction = "UP" /\ sentiment_score > 0 THEN 15 * CONF_SCALE ELSE 0)
    + (IF direction = "DOWN" /\ sentiment_score < 0 THEN 15 * CONF_SCALE ELSE 0)

FinalSignalMut(direction, pattern, final_conf, buy_threshold, sell_threshold) ==
    IF direction = "UP"
    THEN IF final_conf >= buy_threshold THEN "BUY" ELSE "HOLD"
    ELSE IF final_conf >= sell_threshold THEN "SELL" ELSE "HOLD"

\* buy_threshold, sell_threshold: already multiplied by 100 (percent, scaled)
FinalSignal(direction, pattern, final_conf, buy_threshold, sell_threshold) ==
    IF direction = "UP"
    THEN IF pattern \in {"bearish", "strong_bearish", "overbought"} /\ final_conf < 85 * CONF_SCALE
         THEN "HOLD"
         ELSE IF final_conf >= buy_threshold THEN "BUY" ELSE "HOLD"
    ELSE IF pattern \in {"bullish", "strong_bullish", "oversold"} /\ final_conf < 85 * CONF_SCALE
         THEN "HOLD"
         ELSE IF final_conf >= sell_threshold THEN "SELL" ELSE "HOLD"

\* state: the dict handed to run(); stoch_k, ema20 and history_len come from the
\* predictor object in it, headlines from fetch_news(current_symbol).
Run(state) ==
    LET buy_threshold == state.buy_threshold * CONF_SCALE
        sell_threshold == state.sell_threshold * CONF_SCALE
        base_conf == state.ai_confidence
        direction == Direction(state.ai_prediction, state.current_ask)
        pattern == detect_pattern(state.rsi, state.current_ask, state.sma10,
                                  Ema20(state.history_len, state.ema20, state.sma10))
        final_conf == base_conf + PatternBoost(direction, pattern)
                      + StochBoost(direction, state.stoch_k)
                      + NewsBoost(direction, SentimentScore(state.headlines))
    IN  [ signal |-> FinalSignal(direction, pattern, final_conf, buy_threshold, sell_threshold),
          direction |-> direction,
          pattern |-> pattern,
          base_conf |-> base_conf,
          final_conf |-> final_conf ]

-----------------------------------------------------------------------------
(* Configuration read by src/src/state.py as config.<NAME>.  The values    *)
(* are set outside the files modelled here; the ones below follow the      *)
(* comments at the places that read them (state.py lines 64, 77, 304-305). *)

MAX_DAILY_LOSS == 5              \* percent of day_start_balance
MIN_CONFIDENCE_FOR_TRADE == 85   \* percent
TP_MIN_MULT == 150               \* hundredths (1.5 x ATR)
TP_MAX_MULT == 300               \* hundredths (3 x ATR)
BREAK_EVEN_TRIGGER == 70         \* hundredths (0.7 x ATR)
TRAILING_STOP_MULT == 150        \* hundredths (1.5 x ATR)
RISK_PER_TRADE == 1              \* percent of balance
MIN_LOT_SIZE == 1                \* hundredths of a lot
MAX_LOT_SIZE == 100              \* hundredths of a lot

\* "XAU" in symbol
IsXAU(symbol) == symbol \in {"XAUUSD", "XAUUSDm"}

-----------------------------------------------------------------------------
(* Data model: src/src/models/data_models.py, with the fields state.py     *)
(* reads and writes on them (atr, sma200 on the market; symbol, auto_lot   *)
(* on the settings).                                                       *)

MarketData(symbol, bid, ask, is_open) ==
    [ symbol |-> symbol, bid |-> bid, ask |-> ask, is_open |-> is_open,
      prediction |-> 0, confidence |-> 0, rsi |-> 0, sma10 |-> 0,
      sma200 |-> 0, atr |-> 0 ]

AccountData(balance, equity, profit, position_count) ==
    [ balance |-> balance, equity |-> equity, profit |-> profit,
      position_count |-> position_count ]

TradeSettings ==
    [ symbol |-> "", lot |-> 1, sl |-> 0, tp |-> 0, auto_trade |-> FALSE,
      auto_lot |-> FALSE, auto_profit_close |-> 0, pos_profit_limit |-> 0,
      pos_loss_limit |-> 0, max_positions |-> 5, buy_threshold |-> 75,
      sell_threshold |-> 75 ]

\* type: 0 = BUY, 1 = SELL
PositionData(ticket, type, profit, price_open, sl, tp) ==
    [ ticket |-> ticket, type |-> type, profit |-> profit,
      price_open |-> price_open, sl |-> sl, tp |-> tp ]

\* The dict passed with a TRADE_COMMAND is a record holding the keys present.
\* dict.get(key, default)
Get(dict, key, default) == IF key \in DOMAIN dict THEN dict[key] ELSE default

\* x or y, for strings
OrElse(x, y) == IF x = "" THEN y ELSE x

\* The values of the pending_command attribute
Unset == << "<unset>" >>     \* the attribute does not exist
Empty == << >>               \* ""

\* Keys of sent_closures: a ticket number, or a string.
TicketKey(ticket) == << "int", ticket >>          \* pos.ticket
CloseAllKey == << "CLOSE_ALL" >>                  \* "CLOSE_ALL"
ActionKey(action, ticket) == << action, "_", ticket >>   \* f"{action}_{ticket}"

Put(closures, key, t) ==
    [ k \in DOMAIN closures \cup {key} |-> IF k = key THEN t ELSE closures[k] ]

\* The command string ACTION|f1|f2|f3|f4, as its fields.
Command(action, f1, f2, f3, f4) == << action, f1, f2, f3, f4 >>

-----------------------------------------------------------------------------
(* AppState._on_trade_command (state.py 161-191).  st is the part of the   *)
(* store it changes: [pending |-> pending_commands, closures |->           *)
(* sent_closures]; s, m: settings and market at the time of the call.      *)

OnTradeCommand(cmd_data, st, s, m, t) ==
    LET action == cmd_data.action
        symbol == OrElse(Get(cmd_data, "symbol", ""), OrElse(s.symbol, m.symbol))
    IN  IF action = "DATA_SYNC"
        THEN [st EXCEPT !.pending = Append(@, Command(action, symbol,
                                     Get(cmd_data, "tf", "H1"), Get(cmd_data, "bars", "5000"), 0))]
        ELSE IF action = "CLOSE_TICKET"
        THEN [st EXCEPT !.pending = Append(@, Command("CLOSE_TICKET", Get(cmd_data, "ticket", None), 0, 0, 0))]
        ELSE IF action = "MODIFY_TICKET"
        THEN [st EXCEPT !.pending = Append(@, Command("MODIFY_TICKET",
                                     Get(cmd_data, "ticket", None), 0,
                                     Get(cmd_data, "sl", None), Get(cmd_data, "tp", None)))]
        ELSE LET lot == Get(cmd_data, "lot", s.lot)
                 sl == Get(cmd_data, "sl", s.sl)
                 tp == Get(cmd_data, "tp", s.tp)
                 key == ActionKey(action, Get(cmd_data, "ticket", ""))
                 queued == [st EXCEPT !.pending = Append(@, Command(action, symbol, lot, sl, tp))]
             IN  IF action \in {"CLOSE_ALL", "CLOSE_WIN", "CLOSE_LOSS"}   \* action.startswith("CLOSE")
                 THEN IF key \in DOMAIN st.closures /\ t - st.closures[key] < ONE_SECOND
                      THEN st
                      ELSE [queued EXCEPT !.closures = Put(st.closures, key, t)]
                 ELSE queued

-----------------------------------------------------------------------------
(* AppState.evaluate_strategy (state.py 193-346).                          *)

RawConfidenceMut(pred_price, current_price, buy_threshold) ==
    IF current_price > 0
    THEN LET threshold == IF buy_threshold = 0 THEN 75 ELSE buy_threshold
         IN  MulDiv(1000000000, Abs(pred_price - current_price), current_price * threshold)
    ELSE 0

\* Lines 210-228: confidence from the predicted percentage change.
RawConfidence(pred_price, current_price, buy_threshold) ==
    IF current_price > 0
    THEN LET threshold == IF buy_threshold = 0 THEN 75 ELSE buy_threshold  \* buy_threshold or 0.75
         IN  Min(MulDiv(1000000000, Abs(pred_price - current_price),
                        current_price * threshold),
                 120 * CONF_SCALE)
    ELSE 0

OpposesMut(decision, pos) == TRUE

\* Line 268
Opposes(decision, pos) ==
    (decision = "BUY" /\ pos.type = 1) \/ (decision = "SELL" /\ pos.type = 0)

\* Lines 264-270: close every position opposite to the decision.
RECURSIVE ReversalCloses(_, _, _, _, _, _)
ReversalCloses(poss, decision, st, s, m, t) ==
    IF poss = << >> THEN st
    ELSE LET pos == Head(poss)
             st1 == IF Opposes(decision, pos)
                    THEN OnTradeCommand([action |-> "CLOSE_TICKET", ticket |-> pos.ticket],
                                        st, s, m, t)
                    ELSE st
         IN  ReversalCloses(Tail(poss), decision, st1, s, m, t)

\* Lines 306-308
RewardMult(confidence) ==
    LET floor == MIN_CONFIDENCE_FOR_TRADE * CONF_SCALE
        raw == TP_MIN_MULT + ((confidence - floor) * (TP_MAX_MULT - TP_MIN_MULT))
                                 \div (100 * CONF_SCALE - floor)
    IN  Max(TP_MIN_MULT, Min(TP_MAX_MULT, raw))

\* Lines 320-332; round(x, 2) as round-half-up on hundredths of a lot
PositionSize(s, balance, sl_dist, symbol) ==
    IF s.auto_lot
    THEN LET risk_amount == balance * RISK_PER_TRADE       \* hundredths of money
             den == sl_dist                                \* sl_dist * scale
             num == IF IsXAU(symbol) THEN risk_amount ELSE risk_amount * 100
         IN  IF risk_amount > 0 /\ sl_dist > 0
             THEN Max(MIN_LOT_SIZE, Min(MAX_LOT_SIZE, (2 * num + den) \div (2 * den)))
             ELSE s.lot
    ELSE s.lot

AgainstTrendMut(decision, m) ==
    (decision = "BUY" /\ m.ask < m.sma200) \/ (decision = "SELL" /\ m.ask > m.sma200)

\* Lines 289-296
AgainstTrend(decision, m) ==
    m.sma200 > 0 /\ (  (decision = "BUY" /\ m.ask < m.sma200)
                     \/ (decision = "SELL" /\ m.ask > m.sma200))

CooldownActiveMut(t, ltt) == t - ltt < 30 * ONE_SECOND - HALF_SECOND

\* Lines 299-300
CooldownActive(t, ltt) == t - ltt < 30 * ONE_SECOND

LevelsMut(decision, ask, sl_dist, tp_dist) == [sl |-> ask - sl_dist, tp |-> ask + tp_dist]

\* Lines 313-318
Levels(decision, ask, sl_dist, tp_dist) ==
    IF decision = "BUY" THEN [sl |-> ask - sl_dist, tp |-> ask + tp_dist]
    ELSE [sl |-> ask + sl_dist, tp |-> ask - tp_dist]

\* The RiskGate, lines 251-343, for a BUY or SELL decision.  m carries the
\* confidence after the visual cap of line 248.
RiskGate(decision, m, s, acct, poss, loss_hit, ltt, st, t) ==
    LET atr == m.atr
        closed == IF m.confidence >= 90 * CONF_SCALE
                  THEN ReversalCloses(poss, decision, st, s, m, t)
                  ELSE st
        reward_mult == RewardMult(m.confidence)
        sl_dist == atr
        tp_dist == (atr * reward_mult) \div 100
        sl == Levels(decision, m.ask, sl_dist, tp_dist).sl
        tp == Levels(decision, m.ask, sl_dist, tp_dist).tp
        lot == PositionSize(s, acct.balance, sl_dist, m.symbol)
        entry == [action |-> decision, symbol |-> m.symbol, lot |-> lot,
                  sl |-> sl, tp |-> tp]
    IN  IF loss_hit
        THEN [stage |-> "daily_loss", st |-> st, last_trade_time |-> ltt]
        ELSE IF m.confidence < MIN_CONFIDENCE_FOR_TRADE * CONF_SCALE
        THEN [stage |-> "confidence", st |-> st, last_trade_time |-> ltt]
        ELSE IF atr > 0 /\ 2 * (m.ask - m.bid) > 3 * atr        \* spread > atr * 1.5
        THEN [stage |-> "spread", st |-> closed, last_trade_time |-> ltt]
        ELSE IF acct.position_count >= s.max_positions
        THEN [stage |-> "positions", st |-> closed, last_trade_time |-> ltt]
        ELSE IF AgainstTrend(decision, m)
        THEN [stage |-> "trend", st |-> closed, last_trade_time |-> ltt]
        ELSE IF CooldownActive(t, ltt)
        THEN [stage |-> "cooldown", st |-> closed, last_trade_time |-> ltt]
        ELSE [stage |-> "emitted",
              st |-> OnTradeCommand(entry, closed, s, m, t),   \* events.emit(TRADE_COMMAND, ...)
              last_trade_time |-> t]

\* Lines 197-228: the market after the prediction and the confidence.
\* po: what predict_price returned and left in the predictor's last_* fields.
Prediction(m, po, s) ==
    [m EXCEPT !.prediction = po.price, !.rsi = po.rsi, !.sma10 = po.sma10,
              !.sma200 = po.sma200, !.atr = po.atr,
              !.confidence = RawConfidence(po.price, m.ask, s.buy_threshold)]

\* headlines: what fetch_news returned.
EvaluateStrategy(m, po, headlines, s, acct, poss, loss_hit, ltt, st, t) ==
    LET m1 == Prediction(m, po, s)
        state_dict == [ buy_threshold |-> s.buy_threshold,
                        sell_threshold |-> s.sell_threshold,
                        ai_prediction |-> m1.prediction,
                        ai_confidence |-> m1.confidence,
                        current_ask |-> m1.ask,
                        rsi |-> m1.rsi,
                        sma10 |-> m1.sma10,
                        stoch_k |-> po.stoch_k,
                        ema20 |-> po.ema20,
                        history_len |-> po.history_len,
                        headlines |-> headlines ]
        run == Run(state_dict)
        decision == run.signal
        m2 == [m1 EXCEPT !.confidence = Min(@, 100 * CONF_SCALE)]
        gate == RiskGate(decision, m2, s, acct, poss, loss_hit, ltt, st, t)
    IN  IF decision \in {"BUY", "SELL"}
        THEN [ market |-> m2, run |-> run, stage |-> gate.stage, st |-> gate.st,
               last_trade_time |-> gate.last_trade_time, state |-> state_dict ]
        ELSE [ market |-> m2, run |-> run, stage |-> "hold", st |-> st,
               last_trade_time |-> ltt, state |-> state_dict ]

\* The calls of SimpleStrategy.run (line 245) that can raise to the
\* evaluation: detect_pattern and fetch_news (simple_strategy.py 37-38; run
\* has no try of its own).  predict_price catches what its model raises and
\* returns the ask (predictor.py 155-159): that is a po whose price is the ask.
Capabilities == { "detect_pattern", "fetch_news" }

\* Lines 195, 345-346: one try around the whole evaluation.  When a call
\* raises, what was assigned before it stays and nothing after it runs.
Raised(faults, m, po, s, ltt, st) ==
    [ market |-> Prediction(m, po, s), run |-> None, stage |-> "error", st |-> st,
      last_trade_time |-> ltt, state |-> None ]

-----------------------------------------------------------------------------
(* PositionAutomation: the sweep of AppState._on_positions_update          *)
(* (state.py 56-102) over one position.                                    *)

\* Line 67: 0.1 for XAU symbols; 0.0001 otherwise, which is below one price point.
BreakEvenBuffer(symbol) == IF IsXAU(symbol) THEN 10 ELSE 0

\* profit_in_atr >= mult, with mult in hundredths (line 62)
ProfitInAtrAtLeast(profit, atr, symbol, mult) ==
    IF IsXAU(symbol) THEN profit * 100 >= mult * atr
    ELSE profit * 10000 >= mult * atr

\* Lines 64-75
BreakEven(pos, st, s, m, t) ==
    LET modify(sl) == OnTradeCommand([action |-> "MODIFY_TICKET", ticket |-> pos.ticket,
                                     sl |-> sl, tp |-> pos.tp], st, s, m, t)
    IN  IF ProfitInAtrAtLeast(pos.profit, m.atr, m.symbol, BREAK_EVEN_TRIGGER)
        THEN IF pos.type = 0
             THEN IF pos.sl < pos.price_open
                  THEN modify(pos.price_open + BreakEvenBuffer(m.symbol))
                  ELSE st
             ELSE IF pos.sl = 0 \/ pos.sl > pos.price_open
                  THEN modify(pos.price_open - BreakEvenBuffer(m.symbol))
                  ELSE st
        ELSE st

TrailingMut(pos, st, s, m, t) ==
    LET current_price == IF pos.type = 0 THEN m.bid ELSE m.ask
        dist == (m.atr * TRAILING_STOP_MULT) \div 100
        modify(sl) == OnTradeCommand([action |-> "MODIFY_TICKET", ticket |-> pos.ticket,
                                     sl |-> sl, tp |-> pos.tp], st, s, m, t)
    IN  IF ProfitInAtrAtLeast(pos.profit, m.atr, m.symbol, TRAILING_STOP_MULT)
        THEN IF pos.type = 0
             THEN modify(current_price - dist)
             ELSE IF pos.sl = 0
                     \/ 100 * current_price + m.atr * TRAILING_STOP_MULT < 100 * pos.sl - 10 * m.atr
                  THEN modify(current_price + dist)
                  ELSE st
        ELSE st

\* Lines 77-86
Trailing(pos, st, s, m, t) ==
    LET atr == m.atr
        current_price == IF pos.type = 0 THEN m.bid ELSE m.ask
        dist == (atr * TRAILING_STOP_MULT) \div 100
        modify(sl) == OnTradeCommand([action |-> "MODIFY_TICKET", ticket |-> pos.ticket,
                                     sl |-> sl, tp |-> pos.tp], st, s, m, t)
    IN  IF ProfitInAtrAtLeast(pos.profit, atr, m.symbol, TRAILING_STOP_MULT)
        THEN IF pos.type = 0
             THEN IF 100 * current_price - atr * TRAILING_STOP_MULT > 100 * pos.sl + 10 * atr
                  THEN modify(current_price - dist)
                  ELSE st
             ELSE IF pos.sl = 0
                     \/ 100 * current_price + atr * TRAILING_STOP_MULT < 100 * pos.sl - 10 * atr
                  THEN modify(current_price + dist)
                  ELSE st
        ELSE st

SweepWindowMut == 1 * ONE_SECOND

SweepWindow == 2 * ONE_SECOND

\* Lines 88-102
ProfitLossTarget(pos, st, s, m, t) ==
    LET key == TicketKey(pos.ticket)
        recent == key \in DOMAIN st.closures /\ t - st.closures[key] < SweepWindow
        close == OnTradeCommand([action |-> "CLOSE_TICKET", ticket |-> pos.ticket],
                                [st EXCEPT !.closures = Put(@, key, t)], s, m, t)
    IN  IF s.pos_profit_limit > 0 /\ pos.profit >= s.pos_profit_limit
        THEN IF recent THEN st ELSE close
        ELSE IF s.pos_loss_limit > 0 /\ pos.profit <= 0 - s.pos_loss_limit
        THEN IF recent THEN st ELSE close
        ELSE st

\* Lines 57-102: the loop body for one position, then the rest of the list
RECURSIVE Sweep(_, _, _, _, _)
Sweep(data, st, s, m, t) ==
    IF data = << >> THEN st
    ELSE LET pos == Head(data)
             st1 == IF pos.profit > 0 /\ m.atr > 0
                    THEN Trailing(pos, BreakEven(pos, st, s, m, t), s, m, t)
                    ELSE st
             st2 == ProfitLossTarget(pos, st1, s, m, t)
         IN  Sweep(Tail(data), st2, s, m, t)

OnPositionsUpdateMut(data, st, s, m, t) ==
    IF s.pos_profit_limit > 0 \/ s.pos_loss_limit > 0
    THEN Sweep(data, st, s, m, t)
    ELSE st

\* Lines 47-54
OnPositionsUpdate(data, st, s, m, t) ==
    IF s.pos_profit_limit > 0 \/ s.pos_loss_limit > 0
    THEN IF ~m.is_open THEN st ELSE Sweep(data, st, s, m, t)
    ELSE st

-----------------------------------------------------------------------------
(* Bounds, and the shapes of the inputs the environment may send.  Each    *)
(* specification below draws its inputs from its own small sets.           *)

StartTime == 1000       \* time.time() at start-up: long after last_trade_time = 0
MaxCommands == 3        \* commands accepted in one run (pending_commands is never drained)

Tickets == {1, 2}

\* What predict_price returns and leaves in last_rsi .. last_atr.
Predicted(price, rsi, stoch_k, sma10, sma200, atr, ema20, history_len) ==
    [ price |-> price, rsi |-> rsi, stoch_k |-> stoch_k, sma10 |-> sma10,
      sma200 |-> sma200, atr |-> atr, ema20 |-> ema20, history_len |-> history_len ]

NoFusion == [state |-> None, run |-> None]
NoEvent == [handler |-> None, stage |-> None, resp |-> << >>]

-----------------------------------------------------------------------------
(* EventManager (core/events.py 13-40) and the subscriptions the program   *)
(* makes while it starts: AppState.__init__ (state.py 35-41), then         *)
(* MainWindow.__init__ (ui/main_window.py 53-57).                          *)

EventTypes == { "PRICE_UPDATE", "ACCOUNT_UPDATE", "POSITIONS_UPDATE", "CONNECTION_CHANGE",
                "MARKET_STATUS", "LOG_MESSAGE", "TRADE_COMMAND", "SETTINGS_CHANGE",
                "SYMBOLS_AVAILABLE" }

\* A subscriber given to subscribe() from outside the two classes: a plain
\* function, and a callable object such as a functools.partial, which has no
\* __name__ attribute.
OutsideCallbacks == { "on_event", "partial" }

\* Line 40 reads callback.__name__
HasName(callback) == callback # "partial"

Listeners ==
    [ type \in EventTypes |->
        CASE type = "PRICE_UPDATE"      -> << "AppState._on_price_update", "MainWindow._on_price_update" >>
          [] type = "ACCOUNT_UPDATE"    -> << "AppState._on_account_update", "MainWindow._on_account_update" >>
          [] type = "POSITIONS_UPDATE"  -> << "AppState._on_positions_update" >>
          [] type = "CONNECTION_CHANGE" -> << "AppState._on_connection_change", "MainWindow._on_connection_change" >>
          [] type = "SETTINGS_CHANGE"   -> << "AppState._on_settings_update" >>
          [] type = "TRADE_COMMAND"     -> << "AppState._on_trade_command" >>
          [] type = "SYMBOLS_AVAILABLE" -> << "AppState._on_symbols_available", "MainWindow._on_symbols_update" >>
          [] type = "LOG_MESSAGE"       -> << "MainWindow._on_log_message" >>
          [] OTHER                      -> << >> ]

\* The emits a handler makes while it runs, in order (the longest path through
\* the handler).  guarded: the emit is inside a try block of the handler
\* (state.py 196-346), which keeps a fault of the emit from leaving the handler.
NestedEmits(callback) ==
    CASE callback = "AppState._on_price_update" ->
             << [type |-> "CONNECTION_CHANGE", guarded |-> FALSE],   \* state.py 108
                [type |-> "TRADE_COMMAND", guarded |-> TRUE] >>      \* state.py 337
      [] callback = "AppState._on_connection_change" ->
             << [type |-> "LOG_MESSAGE", guarded |-> FALSE] >>       \* state.py 143, logger.py 20
      [] callback = "AppState._on_trade_command" ->
             << [type |-> "LOG_MESSAGE", guarded |-> FALSE] >>       \* state.py 191, logger.py 20
      [] OTHER -> << >>

Step(op, callback, type, depth) == [op |-> op, h |-> callback, type |-> type, d |-> depth]

RECURSIVE Emit(_, _, _, _)
RECURSIVE Notify(_, _, _, _, _)
RECURSIVE Body(_, _, _, _, _)

\* One callback(data) of line 36: the callback raises at once when it is one
\* of the faulty ones, and otherwise makes its emits and returns.
Call(listeners, callback, type, faulty, depth) ==
    IF callback \in faulty
    THEN [trace |-> << Step("call", callback, type, depth), Step("raise", callback, type, depth) >>,
          raised |-> TRUE]
    ELSE LET b == Body(listeners, NestedEmits(callback), 1, faulty, depth + 1)
         IN  [trace |-> << Step("call", callback, type, depth) >> \o b.trace
                        \o << Step(IF b.raised THEN "raise" ELSE "return", callback, type, depth) >>,
              raised |-> b.raised]

\* The emits of a running handler from the k-th on.
Body(listeners, emits, k, faulty, depth) ==
    IF k > Len(emits)
    THEN [trace |-> << >>, raised |-> FALSE]
    ELSE LET e == Emit(listeners, emits[k].type, faulty, depth)
         IN  IF e.raised /\ ~emits[k].guarded
             THEN [trace |-> e.trace, raised |-> TRUE]
             ELSE LET rest == Body(listeners, emits, k + 1, faulty, depth)
                  IN  [trace |-> e.trace \o rest.trace, raised |-> rest.raised]

\* Lines 33-40: the loop from the i-th listener on.  The except clause formats
\* callback.__name__; on a callback without one the clause itself raises, and
\* that fault leaves emit.
Notify(listeners, type, i, faulty, depth) ==
    IF i > Len(listeners[type])
    THEN [trace |-> << >>, raised |-> FALSE]
    ELSE LET callback == listeners[type][i]
             c == Call(listeners, callback, type, faulty, depth)
         IN  IF c.raised /\ ~HasName(callback)
             THEN [trace |-> c.trace, raised |-> TRUE]
             ELSE LET rest == Notify(listeners, type, i + 1, faulty, depth)
                  IN  [trace |-> c.trace \o rest.trace, raised |-> rest.raised]

\* EventManager.emit (lines 31-40), with what it called, in order
Emit(listeners, type, faulty, depth) ==
    LET n == Notify(listeners, type, 1, faulty, depth)
    IN  [trace |-> << Step("emit", None, type, depth) >> \o n.trace
                   \o << Step(IF n.raised THEN "emit_raise" ELSE "emit_return", None, type, depth) >>,
         raised |-> n.raised]

\* Lines 21-24
subscribe(listeners, type, callback) ==
    IF \E i \in 1..Len(listeners[type]) : listeners[type][i] = callback
    THEN listeners
    ELSE [listeners EXCEPT ![type] = Append(@, callback)]

\* Lines 26-29: list.remove takes out the first occurrence
unsubscribe(listeners, type, callback) ==
    [listeners EXCEPT ![type] = SelectSeq(@, LAMBDA c : c # callback)]

\* No emit has been made.
NoEmit == [type |-> None, faulty |-> {}, trace |-> << >>, raised |-> FALSE]

\* The server thread is not inside an evaluation.
Idle == [pc |-> "idle"]

\* The watchdog between two rounds of its loop (gui.py 418-419); decided_at
\* is the time of its last decision to disconnect, 0 before the first.
Asleep == [pc |-> "sleep", decided_at |-> 0]

-----------------------------------------------------------------------------
(* Initial state: AppState.__init__ (state.py 11-33).  pending_command is  *)
(* not assigned there; gui.queue_command creates it.                       *)

\* Every field but the strategy's inputs and results.
InitStore ==
    /\ now = StartTime
    /\ market = MarketData("", 0, 0, FALSE)
    /\ account = AccountData(0, 0, 0, 0)
    /\ settings = TradeSettings
    /\ is_connected = FALSE
    /\ last_heartbeat = 0
    /\ pending_commands = << >>
    /\ pending_command = Unset
    /\ positions = << >>
    /\ last_trade_time = 0
    /\ sent_closures = << >>
    /\ day_start_balance = 0
    /\ daily_loss_limit_hit = FALSE
    /\ last_strategy_eval = 0
    /\ ev = NoEvent
    /\ cmd_log = << >>
    /\ slot_id = 0
    /\ wire = << >>
    /\ bus = [listeners |-> Listeners, emit |-> NoEmit]
    /\ evaluating = Idle
    /\ watchdog = Asleep
    /\ reported = 0

Init == InitStore /\ fusion = NoFusion

\* The store fields _on_trade_command changes.
Store == [pending |-> pending_commands, closures |-> sent_closures]

\* cmd_log after a handler src turned pending_commands into pending at time t
Logged(pending, src, t) ==
    cmd_log \o [ i \in 1..(Len(pending) - Len(pending_commands)) |->
                 [ t |-> t, src |-> src, via |-> "pending_commands",
                   cmd |-> pending[Len(pending_commands) + i] ] ]

\* Effect of a handler on the command list and on the log of commands.
Accept(st, src) ==
    /\ Len(cmd_log) + Len(st.pending) - Len(pending_commands) <= MaxCommands
    /\ pending_commands' = st.pending
    /\ sent_closures' = st.closures
    /\ cmd_log' = Logged(st.pending, src, now)

\* Effect of a handler on the command list and on the history variables.
Queue(st, src, stage) ==
    /\ Accept(st, src)
    /\ ev' = [handler |-> src, stage |-> stage, resp |-> << >>]

-----------------------------------------------------------------------------
(* Time passes.                                                            *)

Advance(instants) ==
    /\ \E i \in instants : StartTime + i > now /\ now' = StartTime + i
    /\ ev' = NoEvent
    /\ fusion' = NoFusion
    /\ UNCHANGED << bus, evaluating, watchdog, reported >>
    /\ UNCHANGED << market, account, settings, is_connected, last_heartbeat,
                    pending_commands, pending_command, positions, last_trade_time,
                    sent_closures, day_start_balance, daily_loss_limit_hit,
                    last_strategy_eval, cmd_log, slot_id, wire >>

-----------------------------------------------------------------------------
(* AppState._on_price_update (state.py 104-115), with the                  *)
(* CONNECTION_CHANGE it emits (handled by _on_connection_change, 140-146)  *)
(* and the evaluation it runs.                                             *)

ThrottleOpenMut(t, last_eval) == t - last_eval >= 0

\* Line 113
ThrottleOpen(t, last_eval) == t - last_eval >= HALF_SECOND

OnPriceUpdateRaisingMut(faults, data, po, headlines) ==
    LET \* line 107-108
        emits == IF ~is_connected THEN << "CONNECTION_CHANGE" >> ELSE << >>
        Handled(stage) == ev' = [handler |-> "PRICE_UPDATE", stage |-> stage, resp |-> << >>,
                                 data |-> data, emits |-> emits, faults |-> faults]
    IN  /\ is_connected' = TRUE
        /\ last_heartbeat' = IF is_connected THEN last_heartbeat ELSE now
        /\ IF settings.auto_trade /\ ThrottleOpen(now, last_strategy_eval)
           THEN LET e == IF faults = {}
                         THEN EvaluateStrategy(data, po, headlines, settings, account,
                                               positions, daily_loss_limit_hit,
                                               last_trade_time, Store, now)
                         ELSE Raised(faults, data, po, settings, last_trade_time, Store)
                IN  /\ market' = e.market
                    /\ last_trade_time' = e.last_trade_time
                    /\ last_strategy_eval' = now
                    /\ fusion' = [state |-> e.state, run |-> e.run]
                    /\ Accept(e.st, "PRICE_UPDATE")
                    /\ Handled(e.stage)
           ELSE /\ market' = data
                /\ fusion' = NoFusion
                /\ Accept(Store, "PRICE_UPDATE")
                /\ Handled(IF settings.auto_trade THEN "throttled" ELSE "off")
                /\ UNCHANGED << last_trade_time, last_strategy_eval >>
        /\ UNCHANGED << now, account, settings, pending_command, positions,
                        day_start_balance, daily_loss_limit_hit, slot_id, wire,
                        bus, evaluating, watchdog, reported >>

OnPriceUpdateRaising(faults, data, po, headlines) ==
    LET \* line 107-108
        emits == IF ~is_connected THEN << "CONNECTION_CHANGE" >> ELSE << >>
        Handled(stage) == ev' = [handler |-> "PRICE_UPDATE", stage |-> stage, resp |-> << >>,
                                 data |-> data, emits |-> emits, faults |-> faults]
    IN  /\ is_connected' = TRUE
        /\ last_heartbeat' = now
        /\ IF settings.auto_trade /\ ThrottleOpen(now, last_strategy_eval)
           THEN LET e == IF faults = {}
                         THEN EvaluateStrategy(data, po, headlines, settings, account,
                                               positions, daily_loss_limit_hit,
                                               last_trade_time, Store, now)
                         ELSE Raised(faults, data, po, settings, last_trade_time, Store)
                IN  /\ market' = e.market
                    /\ last_trade_time' = e.last_trade_time
                    /\ last_strategy_eval' = now
                    /\ fusion' = [state |-> e.state, run |-> e.run]
                    /\ Accept(e.st, "PRICE_UPDATE")
                    /\ Handled(e.stage)
           ELSE /\ market' = data
                /\ fusion' = NoFusion
                /\ Accept(Store, "PRICE_UPDATE")
                /\ Handled(IF settings.auto_trade THEN "throttled" ELSE "off")
                /\ UNCHANGED << last_trade_time, last_strategy_eval >>
        /\ UNCHANGED << now, account, settings, pending_command, positions,
                        day_start_balance, daily_loss_limit_hit, slot_id, wire,
                        bus, evaluating, watchdog, reported >>

OnPriceUpdateMut(data, po, headlines) == OnPriceUpdateRaisingMut({}, data, po, headlines)

\* No call raises.
OnPriceUpdate(data, po, headlines) == OnPriceUpdateRaising({}, data, po, headlines)

PriceUpdate(ticks, outputs, feeds) ==
    \E data \in ticks, po \in outputs, headlines \in feeds :
        OnPriceUpdate(data, po, headlines)

-----------------------------------------------------------------------------
(* AppState._on_account_update (state.py 117-138)                          *)

DrawdownExceeded(start_balance, equity) ==
    (start_balance - equity) * 100 > start_balance * MAX_DAILY_LOSS

DailyLossLimitMut(hit, start_balance, equity) == DrawdownExceeded(start_balance, equity)

\* Lines 122-126: the flag is only ever set
DailyLossLimit(hit, start_balance, equity) ==
    IF DrawdownExceeded(start_balance, equity) THEN TRUE ELSE hit

OnAccountUpdateMut(data) ==
    LET start == IF day_start_balance = 0 THEN data.balance ELSE day_start_balance
        key == CloseAllKey
        recent == key \in DOMAIN sent_closures /\ now - sent_closures[key] < 2 * ONE_SECOND
        close_all == OnTradeCommand([action |-> "CLOSE_ALL"],
                                    [Store EXCEPT !.closures = Put(@, key, now)],
                                    settings, market, now)
    IN  /\ day_start_balance' = start
        /\ daily_loss_limit_hit' = DailyLossLimit(daily_loss_limit_hit, start, data.equity)
        /\ account' = data
        /\ IF settings.auto_profit_close > 0 /\ data.profit >= settings.auto_profit_close
              /\ ~recent
           THEN Queue(close_all, "ACCOUNT_UPDATE", "close_all")
           ELSE Queue(Store, "ACCOUNT_UPDATE", "none")
        /\ fusion' = NoFusion
        /\ UNCHANGED << now, market, settings, is_connected, last_heartbeat,
                        pending_command, positions, last_trade_time,
                        last_strategy_eval, slot_id, wire, bus, evaluating, watchdog >>
        /\ reported' = Len(cmd_log')

\* Lines 117-138
OnAccountUpdate(data) ==
    LET start == IF day_start_balance = 0 THEN data.balance ELSE day_start_balance
        key == CloseAllKey
        recent == key \in DOMAIN sent_closures /\ now - sent_closures[key] < 2 * ONE_SECOND
        close_all == OnTradeCommand([action |-> "CLOSE_ALL"],
                                    [Store EXCEPT !.closures = Put(@, key, now)],
                                    settings, market, now)
    IN  /\ day_start_balance' = start
        /\ daily_loss_limit_hit' = DailyLossLimit(daily_loss_limit_hit, start, data.equity)
        /\ account' = data
        /\ IF settings.auto_profit_close > 0 /\ data.profit >= settings.auto_profit_close
              /\ market.is_open /\ ~recent
           THEN Queue(close_all, "ACCOUNT_UPDATE", "close_all")
           ELSE Queue(Store, "ACCOUNT_UPDATE", "none")
        /\ fusion' = NoFusion
        /\ UNCHANGED << now, market, settings, is_connected, last_heartbeat,
                        pending_command, positions, last_trade_time,
                        last_strategy_eval, slot_id, wire, bus, evaluating, watchdog >>
        /\ reported' = Len(cmd_log')

AccountUpdate(accounts) == \E data \in accounts : OnAccountUpdate(data)

-----------------------------------------------------------------------------
(* AppState._on_positions_update (state.py 47-102)                         *)

\* ev keeps the snapshot the handler was called with.
PositionsUpdate(snapshots) ==
    /\ \E data \in snapshots :
           /\ positions' = data
           /\ Accept(OnPositionsUpdate(data, Store, settings, market, now), "POSITIONS_UPDATE")
           /\ ev' = [handler |-> "POSITIONS_UPDATE",
                     stage |-> IF market.is_open THEN "open" ELSE "closed",
                     resp |-> << >>, data |-> data]
    /\ fusion' = NoFusion
    /\ UNCHANGED << bus, evaluating, watchdog, reported >>
    /\ UNCHANGED << now, market, account, settings, is_connected, last_heartbeat,
                    pending_command, last_trade_time, day_start_balance,
                    daily_loss_limit_hit, last_strategy_eval, slot_id, wire >>

-----------------------------------------------------------------------------
(* AppState._on_connection_change (state.py 140-146), status = False       *)

DisconnectMut ==
    /\ is_connected' = FALSE
    /\ ev' = [handler |-> "CONNECTION_CHANGE", stage |-> "none", resp |-> << >>]
    /\ fusion' = NoFusion
    /\ pending_commands' = << >>
    /\ UNCHANGED << bus, evaluating, watchdog, reported >>
    /\ UNCHANGED << now, market, account, settings, last_heartbeat,
                    pending_command, positions, last_trade_time, sent_closures,
                    day_start_balance, daily_loss_limit_hit, last_strategy_eval,
                    cmd_log, slot_id, wire >>

Disconnect ==
    /\ is_connected' = FALSE
    /\ ev' = [handler |-> "CONNECTION_CHANGE", stage |-> "none", resp |-> << >>]
    /\ fusion' = NoFusion
    /\ UNCHANGED << bus, evaluating, watchdog, reported >>
    /\ UNCHANGED << now, market, account, settings, last_heartbeat, pending_commands,
                    pending_command, positions, last_trade_time, sent_closures,
                    day_start_balance, daily_loss_limit_hit, last_strategy_eval,
                    cmd_log, slot_id, wire >>

-----------------------------------------------------------------------------
(* AppState._on_settings_update (state.py 148-159)                         *)

OnSettingsUpdateMut(new) ==
    LET changed == settings.symbol # new.symbol /\ new.symbol # ""
    IN  /\ IF changed
           THEN Accept(OnTradeCommand([action |-> "CHANGE_SYMBOL", symbol |-> new.symbol],
                                      Store, settings, market, now),
                       "SETTINGS_CHANGE")
           ELSE Accept(Store, "SETTINGS_CHANGE")
        /\ ev' = [handler |-> "SETTINGS_CHANGE", stage |-> IF changed THEN "symbol" ELSE "none",
                  resp |-> << >>, data |-> new]
        /\ settings' = new
        /\ fusion' = IF "predictor" \in DOMAIN fusion THEN fusion ELSE NoFusion
        /\ UNCHANGED << bus, evaluating, watchdog, reported >>
        /\ UNCHANGED << now, market, account, is_connected, last_heartbeat, pending_command,
                        positions, last_trade_time, day_start_balance, daily_loss_limit_hit,
                        last_strategy_eval, slot_id, wire >>

OnSettingsUpdate(new) ==
    LET changed == settings.symbol # new.symbol /\ new.symbol # ""
    IN  /\ IF changed
           THEN Accept(OnTradeCommand([action |-> "CHANGE_SYMBOL", symbol |-> new.symbol],
                                      Store, settings, market, now),
                       "SETTINGS_CHANGE")
           ELSE Accept(Store, "SETTINGS_CHANGE")
        /\ ev' = [handler |-> "SETTINGS_CHANGE", stage |-> IF changed THEN "symbol" ELSE "none",
                  resp |-> << >>, data |-> new]
        /\ settings' = new
        \* lines 155-156, where fusion carries the predictor
        /\ fusion' = IF "predictor" \in DOMAIN fusion
                     THEN IF changed THEN [fusion EXCEPT !.predictor.history_len = 0] ELSE fusion
                     ELSE NoFusion
        /\ UNCHANGED << bus, evaluating, watchdog, reported >>
        /\ UNCHANGED << now, market, account, is_connected, last_heartbeat, pending_command,
                        positions, last_trade_time, day_start_balance, daily_loss_limit_hit,
                        last_strategy_eval, slot_id, wire >>

SettingsUpdate(options) == \E new \in options : OnSettingsUpdate(new)

-----------------------------------------------------------------------------
(* A TRADE_COMMAND event emitted from outside the store, handled by        *)
(* AppState._on_trade_command (state.py 161-191).                          *)

TradeCommand(commands) ==
    /\ \E cmd_data \in commands :
           /\ Queue(OnTradeCommand(cmd_data, Store, settings, market, now),
                    "TRADE_COMMAND", cmd_data.action)
    /\ fusion' = NoFusion
    /\ UNCHANGED << bus, evaluating, watchdog, reported >>
    /\ UNCHANGED << now, market, account, settings, is_connected, last_heartbeat,
                    pending_command, positions, last_trade_time, day_start_balance,
                    daily_loss_limit_hit, last_strategy_eval, slot_id, wire >>

-----------------------------------------------------------------------------
(* MT5ControllerGUI.queue_command (gui.py 374-384): the symbol, lot, sl    *)
(* and tp come from the form, at its defaults here (gui.py 49-55).         *)

QueueCommand(actions) ==
    /\ \E action \in actions :
           LET cmd == Command(action, "XAUUSDm", 1, 0, 0)
           IN  IF ~is_connected
               THEN /\ ev' = [handler |-> "queue_command", stage |-> "not_connected", resp |-> << >>]
                    /\ UNCHANGED << pending_command, cmd_log, slot_id >>
               ELSE /\ Len(cmd_log) < MaxCommands
                    /\ pending_command' = cmd
                    /\ cmd_log' = Append(cmd_log, [t |-> now, src |-> "queue_command",
                                                   via |-> "pending_command", cmd |-> cmd])
                    /\ slot_id' = Len(cmd_log) + 1
                    /\ ev' = [handler |-> "queue_command", stage |-> action, resp |-> << >>]
    /\ fusion' = NoFusion
    /\ UNCHANGED << bus, evaluating, watchdog, reported >>
    /\ UNCHANGED << now, market, account, settings, is_connected, last_heartbeat,
                    pending_commands, positions, last_trade_time, sent_closures,
                    day_start_balance, daily_loss_limit_hit, last_strategy_eval, wire >>

-----------------------------------------------------------------------------
(* The agent's poll: MT5Handler.do_POST (server.py 39-58), the heartbeat   *)
(* pulse and the response.  _process_data, called in between, only emits   *)
(* the events whose handlers are the actions above; none of them reads or  *)
(* writes pending_command, and queue_command runs on the GUI thread, so    *)
(* the response is a step of its own.                                      *)

Poll ==
    /\ last_heartbeat' = IF now - last_heartbeat > 60 * ONE_SECOND THEN now ELSE last_heartbeat
    /\ IF pending_command = Unset
       THEN \* line 53 reads an attribute that does not exist: the handler raises
            /\ ev' = [handler |-> "do_POST", stage |-> "none", resp |-> << "FAULT" >>]
            /\ UNCHANGED << pending_command, slot_id, wire >>
       ELSE IF pending_command # Empty
       THEN /\ ev' = [handler |-> "do_POST", stage |-> "none", resp |-> pending_command]
            /\ wire' = Append(wire, slot_id)
            /\ pending_command' = Empty
            /\ slot_id' = 0
       ELSE /\ ev' = [handler |-> "do_POST", stage |-> "none", resp |-> << "OK" >>]
            /\ UNCHANGED << pending_command, slot_id, wire >>
    /\ fusion' = NoFusion
    /\ UNCHANGED << bus, evaluating, watchdog, reported >>
    /\ UNCHANGED << now, market, account, settings, is_connected, pending_commands,
                    positions, last_trade_time, sent_closures, day_start_balance,
                    daily_loss_limit_hit, last_strategy_eval, cmd_log >>

-----------------------------------------------------------------------------
(* Vocabulary of the properties.                                           *)

Vetoes == {"daily_loss", "confidence", "spread", "positions", "trend", "cooldown"}

\* The last step ran evaluate_strategy (it was neither throttled nor switched off).
Evaluated == ev.handler = "PRICE_UPDATE" /\ ev.stage \in Vetoes \cup {"hold", "emitted"}

IsEntry(cmd) == cmd[1] \in {"BUY", "SELL"}
IsCloseTicket(cmd, ticket) == cmd[1] = "CLOSE_TICKET" /\ cmd[2] = ticket

\* Log entries of the automated entries: BUY/SELL queued while handling a tick.
AutoEntries == { i \in 1..Len(cmd_log) : cmd_log[i].src = "PRICE_UPDATE" /\ IsEntry(cmd_log[i].cmd) }

\* Log entries of the CLOSE_TICKET commands for a ticket queued by the handler src.
ClosesBy(src, ticket) ==
    { i \in 1..Len(cmd_log) : cmd_log[i].src = src /\ IsCloseTicket(cmd_log[i].cmd, ticket) }

\* Log entries of the CLOSE_TICKET commands for a ticket, whoever queued them.
Closes(ticket) == { i \in 1..Len(cmd_log) : IsCloseTicket(cmd_log[i].cmd, ticket) }

\* In a step: the commands the step appended to pending_commands.
Appended == SubSeq(pending_commands', Len(pending_commands) + 1, Len(pending_commands'))

-----------------------------------------------------------------------------
(* The RiskGate under ticks, account and position snapshots and a settings *)
(* change that switches automated trading on.                              *)

GateInstants == {59, 60}            \* 29.5 s and 30 s after start-up

GateTicks ==
    { MarketData("XAUUSD", 99990, 100000, TRUE),     \* spread 0.10
      MarketData("XAUUSD", 99800, 100000, TRUE) }    \* spread 2.00 > 1.5 x atr

GateOutputs ==
    { Predicted(100000, 50, 50, 0, 0, 0, 0, 5),                  \* window not warmed up: HOLD
      Predicted(100070, 70, 10, 99990, 99950, 50, 99990, 30),    \* up 93 %, strong_bullish
      Predicted(100070, 70, 10, 99990, 100050, 50, 99990, 30),   \* the same, ask below sma200
      Predicted(100065, 70, 60, 99990, 99950, 50, 99990, 30),    \* up 86 %
      Predicted(100050, 70, 10, 99990, 99950, 50, 99990, 30),    \* up 66 %, boosted to 121 %
      Predicted(99930, 30, 90, 100010, 100050, 50, 100010, 30) } \* down 93 %, strong_bearish

GateFeeds == { << >> }

GateAccounts ==
    { AccountData(1000, 1000, 0, 0),
      AccountData(1000, 940, -60, 1),     \* drawdown 6 %
      AccountData(1000, 1000, 0, 5) }     \* at the position cap

GateSettings == { [TradeSettings EXCEPT !.auto_trade = TRUE] }

GatePositions == { << >>, << PositionData(1, 1, 12, 100100, 0, 0) >> }

NextGate ==
    \/ Advance(GateInstants)
    \/ PriceUpdate(GateTicks, GateOutputs, GateFeeds)
    \/ AccountUpdate(GateAccounts)
    \/ PositionsUpdate(GatePositions)
    \/ SettingsUpdate(GateSettings)

SpecGate == Init /\ [][NextGate]_vars

\* C3: once a snapshot shows the drawdown over MAX_DAILY_LOSS of the day-start
\* balance the flag is set, it is never cleared, and while it is set no
\* evaluation queues a BUY or SELL, whatever the equity of later snapshots.
C3_DailyLossSticky ==
    [][ /\ (ev'.handler = "ACCOUNT_UPDATE"
              /\ (day_start_balance' - account'.equity) * 100 > day_start_balance' * MAX_DAILY_LOSS)
           => daily_loss_limit_hit'
        /\ daily_loss_limit_hit => daily_loss_limit_hit'
        /\ daily_loss_limit_hit
           => ~(ev'.handler = "PRICE_UPDATE"
                /\ \E i \in 1..Len(Appended) : IsEntry(Appended[i])) ]_vars

\* A non-HOLD decision was vetoed by the daily-loss stage after the equity recovered.
C3_Witness ==
    /\ daily_loss_limit_hit
    /\ account.equity >= day_start_balance
    /\ ev.stage = "daily_loss"
    /\ fusion.run.signal \in {"BUY", "SELL"}

\* C4: automated entries are at least 30 s apart; an entry is queued only 30 s
\* or more after the last one, the cooldown stage vetoes only inside the 30 s,
\* and last_trade_time changes only when an entry is queued (to its time).
C4_Cooldown ==
    /\ [](\A i, j \in AutoEntries : i < j => cmd_log[j].t - cmd_log[i].t >= 30 * ONE_SECOND)
    /\ [][ LET entry == ev'.handler = "PRICE_UPDATE"
                        /\ \E i \in 1..Len(Appended) : IsEntry(Appended[i])
           IN  /\ entry => (now' - last_trade_time >= 30 * ONE_SECOND /\ last_trade_time' = now')
               /\ last_trade_time' # last_trade_time => entry
               /\ ev'.stage = "cooldown" => now' - last_trade_time < 30 * ONE_SECOND ]_vars

\* Two automated entries were queued, the second right after a cooldown veto window.
C4_Witness ==
    /\ Cardinality(AutoEntries) >= 2
    /\ ev.stage = "emitted"
    /\ now - StartTime >= 30 * ONE_SECOND

\* C7 as claimed: a vetoed evaluation appends no command and leaves
\* last_trade_time unchanged.
C7_NoCommandOnVeto ==
    [][ ev'.stage \in Vetoes
        => (pending_commands' = pending_commands /\ last_trade_time' = last_trade_time) ]_vars

\* C7 as amended: a vetoed evaluation appends no BUY or SELL and leaves
\* last_trade_time unchanged; a veto by the daily-loss or confidence stage
\* appends nothing, a veto by a later stage appends at most the reversal
\* CLOSE_TICKET commands for the positions opposite to the decision.
C7_NoEntryOnVeto ==
    [][ ev'.stage \in Vetoes
        => /\ last_trade_time' = last_trade_time
           /\ ev'.stage \in {"daily_loss", "confidence"} => pending_commands' = pending_commands
           /\ \A i \in 1..Len(Appended) :
                 \E k \in 1..Len(positions) :
                    /\ Appended[i] = Command("CLOSE_TICKET", positions[k].ticket, 0, 0, 0)
                    /\ positions[k].type = (IF fusion'.run.signal = "BUY" THEN 1 ELSE 0) ]_vars

\* A decision vetoed by a stage after the reversal step, which had queued a close.
C7_Witness ==
    /\ ev.stage \in {"spread", "positions", "trend", "cooldown"}
    /\ cmd_log # << >>
    /\ cmd_log[Len(cmd_log)].t = now
    /\ cmd_log[Len(cmd_log)].src = "PRICE_UPDATE"
    /\ cmd_log[Len(cmd_log)].cmd[1] = "CLOSE_TICKET"

\* C8 as claimed: the confidence-floor stage vetoes a non-HOLD decision exactly
\* when finalConfidence (raw confidence plus boosts) is below the floor.
C8_FloorOnFinalConfidence ==
    (Evaluated /\ ev.stage \notin {"hold", "daily_loss"})
    => (ev.stage = "confidence"
        <=> fusion.run.final_conf < MIN_CONFIDENCE_FOR_TRADE * CONF_SCALE)

-----------------------------------------------------------------------------
(* The per-position sweep under position snapshots one second apart, the   *)
(* market opening and closing, the limits being set, and CLOSE_TICKET      *)
(* requests arriving as TRADE_COMMAND events.                              *)

SweepInstants == {2, 4, 6}          \* 1 s, 2 s and 3 s after the first instant

SweepTicks ==
    { MarketData("XAUUSD", 99990, 100000, TRUE),
      MarketData("XAUUSD", 99990, 100000, FALSE) }   \* market closed

SweepOutputs == { Predicted(100070, 70, 10, 99990, 99950, 50, 99990, 30) }  \* up 93 %

SweepFeeds == { << >> }

SweepSettings ==
    { [TradeSettings EXCEPT !.pos_profit_limit = 10, !.pos_loss_limit = 10],
      [TradeSettings EXCEPT !.pos_loss_limit = 10] }

SweepPositions ==
    { << >>,
      << PositionData(1, 1, 12, 100100, 0, 0) >>,                                   \* over the profit limit
      << PositionData(1, 1, 12, 100100, 0, 0), PositionData(2, 0, -15, 100100, 0, 0) >>,  \* and over the loss limit
      << PositionData(1, 1, 5, 100100, 0, 0) >> }                                   \* inside both limits

SweepCommands == { [action |-> "CLOSE_TICKET", ticket |-> 1] }

NextSweep ==
    \/ Advance(SweepInstants)
    \/ PriceUpdate(SweepTicks, SweepOutputs, SweepFeeds)
    \/ PositionsUpdate(SweepPositions)
    \/ SettingsUpdate(SweepSettings)
    \/ TradeCommand(SweepCommands)

SpecSweep == Init /\ [][NextSweep]_vars

\* The position is over the profit limit or the loss limit of the settings.
OverLimit(pos, s) ==
    \/ s.pos_profit_limit > 0 /\ pos.profit >= s.pos_profit_limit
    \/ s.pos_loss_limit > 0 /\ pos.profit <= 0 - s.pos_loss_limit

\* C1 as claimed: whatever their sources, two CLOSE_TICKET triggers for one
\* ticket inside the suppression window queue one command, so any two
\* CLOSE_TICKET commands queued for a ticket are at least the shortest
\* suppression window of the program (1 s) apart.
C1_CloseTicketDeduped ==
    \A k \in Tickets : \A i, j \in Closes(k) :
        i < j => cmd_log[j].t - cmd_log[i].t >= ONE_SECOND

\* C2: while the market is open, a snapshot holding a ticket over its profit
\* or loss limit queues exactly one CLOSE_TICKET for it unless the sweep
\* queued one less than 2 s before, and then none (so the first such snapshot
\* queues exactly one); any two CLOSE_TICKET commands the sweep queues for a
\* ticket are at least 2 s apart.
C2_SweepCloseOncePerWindow ==
    /\ [](\A k \in Tickets : \A i, j \in ClosesBy("POSITIONS_UPDATE", k) :
             i < j => cmd_log[j].t - cmd_log[i].t >= 2 * ONE_SECOND)
    /\ [][ (ev'.handler = "POSITIONS_UPDATE" /\ market.is_open)
           => \A k \in Tickets :
                LET over == \E n \in 1..Len(positions') :
                               positions'[n].ticket = k /\ OverLimit(positions'[n], settings)
                    recent == \E i \in ClosesBy("POSITIONS_UPDATE", k) :
                                 now - cmd_log[i].t < 2 * ONE_SECOND
                    queued == { i \in 1..Len(Appended) : IsCloseTicket(Appended[i], k) }
                IN  Cardinality(queued) = IF over /\ ~recent THEN 1 ELSE 0 ]_vars

\* The sweep closed ticket 1 twice, and the snapshot taken one second after
\* the second close, the ticket still over its limit, queued nothing.
C2_Witness ==
    /\ ev.handler = "POSITIONS_UPDATE"
    /\ market.is_open
    /\ \E n \in 1..Len(positions) : positions[n].ticket = 1 /\ OverLimit(positions[n], settings)
    /\ Cardinality(ClosesBy("POSITIONS_UPDATE", 1)) = 2
    /\ \A i \in ClosesBy("POSITIONS_UPDATE", 1) : cmd_log[i].t < now
    /\ \E i \in ClosesBy("POSITIONS_UPDATE", 1) : now - cmd_log[i].t = ONE_SECOND

-----------------------------------------------------------------------------
(* The command path to the agent: commands accepted by _on_trade_command   *)
(* and by queue_command, and the agent's polls, in any interleaving.       *)

QueueInstants == {2}                \* 1 s after the first instant

QueueTicks == { MarketData("XAUUSD", 99990, 100000, TRUE) }

QueueOutputs == { Predicted(100000, 50, 50, 0, 0, 0, 0, 5) }

QueueFeeds == { << >> }

\* TRADE_COMMAND events of the buttons (main_window.py 715-716) and a close request.
QueueCommands == { [action |-> "CLOSE_ALL"], [action |-> "CLOSE_TICKET", ticket |-> 1] }

\* MT5ControllerGUI's trade buttons.
QueueActions == { "BUY", "SELL" }

NextQueue ==
    \/ Advance(QueueInstants)
    \/ PriceUpdate(QueueTicks, QueueOutputs, QueueFeeds)
    \/ Disconnect
    \/ TradeCommand(QueueCommands)
    \/ QueueCommand(QueueActions)
    \/ Poll

SpecQueue == Init /\ [][NextQueue]_vars

\* How many polls handed the accepted command i to the transport.
Deliveries(i) == Cardinality({ k \in 1..Len(wire) : wire[k] = i })

\* The accepted command i is still held for a later poll.
Held(i) == IF cmd_log[i].via = "pending_command" THEN slot_id = i ELSE TRUE

Undelivered == { i \in 1..Len(cmd_log) : Deliveries(i) = 0 }

\* C5 as claimed: every accepted command is delivered on exactly one poll and
\* then removed: it is never delivered twice, and until its delivery it is
\* held for a later poll (neither lost nor overwritten).
C5_DeliveredExactlyOnce ==
    \A i \in 1..Len(cmd_log) :
        /\ Deliveries(i) <= 1
        /\ Deliveries(i) = 0 => Held(i)
        /\ Deliveries(i) = 1 => (cmd_log[i].via = "pending_command" /\ slot_id # i)

\* C6 as claimed: a poll hands over the oldest undelivered command, so the
\* commands are delivered in the order they were accepted, and it answers
\* "OK" only when no accepted command is undelivered.
C6_PollDrainsOldest ==
    ev.handler = "do_POST"
    => /\ ev.resp = << "OK" >> => Undelivered = {}
       /\ (ev.resp # << "OK" >> /\ ev.resp # << "FAULT" >>)
          => /\ wire # << >>
             /\ ev.resp = cmd_log[wire[Len(wire)]].cmd
             /\ \A i \in Undelivered : i > wire[Len(wire)]

-----------------------------------------------------------------------------
(* SimpleStrategy.run as a function of the dict it is handed: the inputs   *)
(* are drawn from the sets below and run is applied to them.               *)

FusionThresholds == { <<75, 75>>, <<50, 90>>, <<90, 50>> }     \* buy, sell (hundredths)
FusionConfidences == { 0, 4000, 7000, 7499, 7500, 8000, 8499, 8500, 9500 }
FusionPredictions == { 99990, 100000, 100010 }                 \* below, at and above the ask
FusionRsi == { 10, 30, 45, 50, 55, 70, 90 }
FusionSma10 == { 99990, 100010 }
FusionEma20 == { <<30, 99990>>, <<30, 100010>>, <<5, 100010>> }  \* samples in the window, EMA
FusionStochK == { 10, 20, 30, 50, 70, 80, 90 }
FusionFeeds ==
    { << >>,
      << Headline(TRUE, FALSE) >>,
      << Headline(FALSE, TRUE), Headline(TRUE, TRUE) >> }

FusionStates ==
    { [ buy_threshold |-> th[1], sell_threshold |-> th[2], ai_prediction |-> pred,
        ai_confidence |-> conf, current_ask |-> 100000, rsi |-> rsi, sma10 |-> sma10,
        stoch_k |-> k, ema20 |-> e[2], history_len |-> e[1], headlines |-> h ] :
      th \in FusionThresholds, pred \in FusionPredictions, conf \in FusionConfidences,
      rsi \in FusionRsi, sma10 \in FusionSma10, k \in FusionStochK, e \in FusionEma20,
      h \in FusionFeeds }

InitFusion == InitStore /\ fusion \in { [state |-> st, run |-> None] : st \in FusionStates }

\* One call of SimpleStrategy.run on the inputs drawn.
RunStrategy ==
    /\ ev.handler = None
    /\ fusion' = [fusion EXCEPT !.run = Run(fusion.state)]
    /\ ev' = [handler |-> "SimpleStrategy.run", stage |-> fusion'.run.signal, resp |-> << >>]
    /\ UNCHANGED << now, market, account, settings, is_connected, last_heartbeat,
                    pending_commands, pending_command, positions, last_trade_time,
                    sent_closures, day_start_balance, daily_loss_limit_hit,
                    last_strategy_eval, cmd_log, slot_id, wire, bus, evaluating, watchdog, reported >>

NextFusion == RunStrategy

SpecFusion == InitFusion /\ [][NextFusion]_vars

FusionRan == ev.handler = "SimpleStrategy.run"

\* C9: run returns BUY iff the direction is UP, finalConfidence is at least
\* buy_threshold*100 and not (the pattern is bearish, strong_bearish or
\* overbought and finalConfidence < 85); SELL iff the direction is DOWN,
\* finalConfidence is at least sell_threshold*100 and not (the pattern is
\* bullish, strong_bullish or oversold and finalConfidence < 85); HOLD otherwise.
C9_Decision ==
    FusionRan =>
        LET r == fusion.run
            s == fusion.state
            buy == /\ r.direction = "UP"
                   /\ r.final_conf >= s.buy_threshold * CONF_SCALE
                   /\ ~(r.pattern \in {"bearish", "strong_bearish", "overbought"}
                        /\ r.final_conf < 85 * CONF_SCALE)
            sell == /\ r.direction = "DOWN"
                    /\ r.final_conf >= s.sell_threshold * CONF_SCALE
                    /\ ~(r.pattern \in {"bullish", "strong_bullish", "oversold"}
                         /\ r.final_conf < 85 * CONF_SCALE)
        IN  /\ r.signal = "BUY" <=> buy
            /\ r.signal = "SELL" <=> sell
            /\ r.signal = "HOLD" <=> (~buy /\ ~sell)

\* An UP decision over the buy threshold held back by a contradicting pattern.
C9_Witness ==
    /\ FusionRan
    /\ fusion.run.direction = "UP"
    /\ fusion.run.pattern \in {"bearish", "strong_bearish", "overbought"}
    /\ fusion.run.final_conf >= fusion.state.buy_threshold * CONF_SCALE
    /\ fusion.run.final_conf < 85 * CONF_SCALE
    /\ fusion.run.signal = "HOLD"

-----------------------------------------------------------------------------
(* The trend stage of the RiskGate: strong decisions in both directions    *)
(* with sma200 not warmed up, below, at and above the ask.                 *)

TrendInstants == {59, 60}           \* 29.5 s and 30 s after start-up

TrendTicks ==
    { MarketData("XAUUSD", 99990, 100000, TRUE),
      MarketData("XAUUSD", 99800, 100000, TRUE) }    \* spread 2.00 > 1.5 x atr

\* Up 93 % and down 93 %.
TrendOutputs ==
    { Predicted(100070, 70, 10, 99990, sma200, 50, 99990, 30) :
        sma200 \in {0, 99950, 100000, 100050} }
    \cup
    { Predicted(99930, 30, 90, 100010, sma200, 50, 100010, 30) :
        sma200 \in {0, 99950, 100000, 100050} }

TrendFeeds == { << >> }

TrendSettings == { [TradeSettings EXCEPT !.auto_trade = TRUE] }

NextTrend ==
    \/ Advance(TrendInstants)
    \/ PriceUpdate(TrendTicks, TrendOutputs, TrendFeeds)
    \/ SettingsUpdate(TrendSettings)

SpecTrend == Init /\ [][NextTrend]_vars

\* The trend stage was reached: the evaluation ended there or went on past it.
ReachedTrendStage == Evaluated /\ ev.stage \in {"trend", "cooldown", "emitted"}

\* C11: with sma200 > 0 no BUY is queued while ask < sma200 and no SELL while
\* ask > sma200; a decision that reaches the trend stage is suppressed there
\* exactly in those two cases, so with ask >= sma200 a BUY passes the stage
\* and with sma200 = 0 the stage suppresses nothing.
C11_TrendFilter ==
    /\ (Evaluated /\ fusion.run.signal = "BUY" /\ market.sma200 > 0 /\ market.ask < market.sma200)
       => ev.stage # "emitted"
    /\ (Evaluated /\ fusion.run.signal = "SELL" /\ market.sma200 > 0 /\ market.ask > market.sma200)
       => ev.stage # "emitted"
    /\ ReachedTrendStage
       => (ev.stage = "trend"
           <=> /\ market.sma200 > 0
               /\ \/ fusion.run.signal = "BUY" /\ market.ask < market.sma200
                  \/ fusion.run.signal = "SELL" /\ market.ask > market.sma200)
    /\ (Evaluated /\ market.sma200 = 0) => ev.stage # "trend"

\* A BUY vetoed by the trend stage, the ask being below a warmed-up sma200.
C11_Witness ==
    /\ ev.stage = "trend"
    /\ fusion.run.signal = "BUY"
    /\ market.sma200 > market.ask

-----------------------------------------------------------------------------
(* The evaluation throttle: ticks at the same instant and half a second    *)
(* apart, with automated trading switched on and off.                      *)

ThrottleInstants == {1, 2, 3}       \* 0.5 s, 1 s and 1.5 s after start-up

ThrottleTicks ==
    { MarketData("XAUUSD", 99990, 100000, TRUE),
      MarketData("XAUUSD", 99980, 99990, TRUE) }

ThrottleOutputs ==
    { Predicted(100000, 50, 50, 0, 0, 0, 0, 5),                  \* HOLD
      Predicted(100070, 70, 10, 99990, 99950, 50, 99990, 30) }   \* up 93 %

ThrottleFeeds == { << >> }

ThrottleSettings == { TradeSettings, [TradeSettings EXCEPT !.auto_trade = TRUE] }

NextThrottle ==
    \/ Advance(ThrottleInstants)
    \/ PriceUpdate(ThrottleTicks, ThrottleOutputs, ThrottleFeeds)
    \/ SettingsUpdate(ThrottleSettings)

SpecThrottle == Init /\ [][NextThrottle]_vars

\* C12: an evaluation starts only 0.5 s or more after the start of the last
\* one, which last_strategy_eval records (it changes only when a tick is
\* evaluated, to the time of that tick); with auto-trade on, a tick 0.5 s or
\* more after the last evaluation is evaluated.
C12_Throttle ==
    [][ LET evaluated == ev'.handler = "PRICE_UPDATE" /\ ev'.stage \notin {"throttled", "off"}
        IN  /\ evaluated => (now' - last_strategy_eval >= HALF_SECOND
                             /\ last_strategy_eval' = now')
            /\ last_strategy_eval' # last_strategy_eval => evaluated
            /\ (ev'.handler = "PRICE_UPDATE" /\ settings.auto_trade
                /\ now' - last_strategy_eval >= HALF_SECOND) => evaluated ]_vars

\* A tick at the very instant of an evaluation was not evaluated.
C12_Witness ==
    /\ ev.handler = "PRICE_UPDATE"
    /\ ev.stage = "throttled"
    /\ last_strategy_eval = now
    /\ now > StartTime


-----------------------------------------------------------------------------
(* The event bus on its own: outside subscribers come and go, and events   *)
(* are emitted while some of the subscribers raise.                        *)

BusTypes == { "PRICE_UPDATE", "CONNECTION_CHANGE", "LOG_MESSAGE" }

\* The sets of handlers that raise during one emit.
BusFaults == SUBSET { "partial", "on_event", "AppState._on_connection_change",
                      "MainWindow._on_price_update" }

BusUnchanged ==
    UNCHANGED << now, market, account, settings, is_connected, last_heartbeat,
                 pending_commands, pending_command, positions, last_trade_time,
                 sent_closures, day_start_balance, daily_loss_limit_hit,
                 last_strategy_eval, fusion, cmd_log, slot_id, wire, evaluating, watchdog, reported >>

Subscribe(types, callbacks) ==
    /\ \E type \in types, callback \in callbacks :
           /\ bus' = [listeners |-> subscribe(bus.listeners, type, callback), emit |-> NoEmit]
           /\ ev' = [handler |-> "subscribe", stage |-> type, resp |-> << >>]
    /\ BusUnchanged

Unsubscribe(types, callbacks) ==
    /\ \E type \in types, callback \in callbacks :
           /\ bus' = [listeners |-> unsubscribe(bus.listeners, type, callback), emit |-> NoEmit]
           /\ ev' = [handler |-> "unsubscribe", stage |-> type, resp |-> << >>]
    /\ BusUnchanged

EmitEvent(types, faults) ==
    /\ \E type \in types, faulty \in faults :
           LET e == Emit(bus.listeners, type, faulty, 0)
           IN  /\ bus' = [bus EXCEPT !.emit = [type |-> type, faulty |-> faulty,
                                               trace |-> e.trace, raised |-> e.raised]]
               /\ ev' = [handler |-> "emit", stage |-> type, resp |-> << >>]
    /\ BusUnchanged

NextBus ==
    \/ Subscribe(BusTypes, OutsideCallbacks)
    \/ Unsubscribe(BusTypes, OutsideCallbacks)
    \/ EmitEvent(BusTypes, BusFaults)

SpecBus == Init /\ [][NextBus]_vars

\* The handlers called by the emit at position k of a trace, in order.
Called(trace, k, last) ==
    LET calls == SelectSeq(SubSeq(trace, k, last),
                           LAMBDA s : s.op = "call" /\ s.d = trace[k].d /\ s.type = trace[k].type)
    IN  [i \in 1..Len(calls) |-> calls[i].h]

\* Where the emit that starts at position k of a trace ends.
EmitEnd(trace, k) ==
    LET ends == { m \in (k + 1)..Len(trace) :
                    /\ trace[m].op \in {"emit_return", "emit_raise"}
                    /\ trace[m].d = trace[k].d }
    IN  CHOOSE m \in ends : \A n \in ends : m <= n

\* C13: when a handler raises during an emit, every handler subscribed to the
\* emitted type is still called for that emit, and emit returns to the emitter
\* without raising.
C13_FaultIsolated ==
    (ev.handler = "emit" /\ \E k \in 1..Len(bus.emit.trace) : bus.emit.trace[k].op = "raise")
        => /\ ~bus.emit.raised
           /\ Called(bus.emit.trace, 1, Len(bus.emit.trace)) = bus.listeners[bus.emit.type]

\* C14: emit calls the handlers of the emitted type one after the other in
\* the order of their subscription and is over only after the last of them
\* has run; an emit made by a running handler has called all its handlers
\* before that handler ends and the next one is called; a handler is only
\* called for a type it is subscribed to.
C14_SynchronousInOrder ==
    ev.handler = "emit"
        => LET trace == bus.emit.trace
           IN  \A k \in 1..Len(trace) :
                   /\ trace[k].op = "emit"
                          => LET last == EmitEnd(trace, k)
                             IN  /\ Called(trace, k, last) = bus.listeners[trace[k].type]
                                 /\ \A m \in k..last : trace[m].d >= trace[k].d
                   /\ trace[k].op = "call"
                          => \E i \in 1..Len(bus.listeners[trace[k].type]) :
                                 bus.listeners[trace[k].type][i] = trace[k].h


-----------------------------------------------------------------------------
(* Two threads.  The HTTP server thread (main.py 34, server.py 147) runs   *)
(* the PRICE_UPDATE handler; the Tk thread runs the SETTINGS_CHANGE        *)
(* handler (ui/main_window.py 82).  EventManager.emit takes no lock, so    *)
(* the Tk thread can run between any two statements of the evaluation.     *)
(* The evaluation is cut once, after the strategy inputs have been read:   *)
(* the thresholds are read before the cut (state.py 219, 237-238), and     *)
(* max_positions, auto_lot and lot after it (state.py 283, 321, 332).      *)

\* state.py 104-114 and 195-238: the tick is stored, predict_price is called
\* and the thresholds are read.
TickBegin(ticks, outputs, feeds) ==
    /\ evaluating.pc = "idle"
    /\ \E data \in ticks, po \in outputs, headlines \in feeds :
           /\ market' = data
           /\ IF settings.auto_trade /\ ThrottleOpen(now, last_strategy_eval)
              THEN /\ evaluating' = [pc |-> "gate", po |-> po, headlines |-> headlines,
                                     settings |-> settings]
                   /\ ev' = [handler |-> "PRICE_UPDATE", stage |-> "evaluating", resp |-> << >>]
              ELSE /\ evaluating' = Idle
                   /\ ev' = [handler |-> "PRICE_UPDATE",
                             stage |-> IF settings.auto_trade THEN "throttled" ELSE "off",
                             resp |-> << >>]
    /\ is_connected' = TRUE
    /\ last_heartbeat' = now
    /\ fusion' = NoFusion
    /\ UNCHANGED << now, account, settings, pending_commands, pending_command, positions,
                    last_trade_time, sent_closures, day_start_balance, daily_loss_limit_hit,
                    last_strategy_eval, cmd_log, slot_id, wire, bus, watchdog, reported >>

\* The settings the second half of the evaluation works with: the thresholds
\* it read before the cut, everything else as it is now.
SettingsSeen(read, current) ==
    [current EXCEPT !.buy_threshold = read.buy_threshold,
                    !.sell_threshold = read.sell_threshold]

\* state.py 239-343 and 115: the decision, the filters and the command.
TickEnd ==
    /\ evaluating.pc = "gate"
    /\ LET e == EvaluateStrategy(market, evaluating.po, evaluating.headlines,
                                 SettingsSeen(evaluating.settings, settings),
                                 account, positions, daily_loss_limit_hit,
                                 last_trade_time, Store, now)
       IN  /\ market' = e.market
           /\ last_trade_time' = e.last_trade_time
           /\ fusion' = [state |-> e.state, run |-> e.run]
           /\ Queue(e.st, "PRICE_UPDATE", e.stage)
    /\ last_strategy_eval' = now
    /\ evaluating' = Idle
    /\ UNCHANGED << now, account, settings, is_connected, last_heartbeat, pending_command,
                    positions, day_start_balance, daily_loss_limit_hit, slot_id, wire, bus, watchdog, reported >>

RaceInstants == {59, 60}

RaceTicks == { MarketData("XAUUSD", 99990, 100000, TRUE) }

\* Up 93 % and down 93 % at the default threshold.
RaceOutputs ==
    { Predicted(100070, 70, 10, 99990, 0, 50, 99990, 30),
      Predicted(99930, 30, 90, 100010, 0, 50, 100010, 30) }

RaceFeeds == { << >> }

RaceSettings ==
    { [TradeSettings EXCEPT !.auto_trade = TRUE],
      [TradeSettings EXCEPT !.auto_trade = TRUE, !.lot = 50,
                            !.buy_threshold = 200, !.sell_threshold = 200],
      [TradeSettings EXCEPT !.auto_trade = TRUE, !.max_positions = 0] }

NextRace ==
    \/ Advance(RaceInstants)
    \/ TickBegin(RaceTicks, RaceOutputs, RaceFeeds)
    \/ TickEnd
    \/ SettingsUpdate(RaceSettings)
    \/ Disconnect

SpecRace == Init /\ [][NextRace]_vars

\* C15: handlers are serialized, so an evaluation never works with settings
\* replaced half-way through it: what it queues and the stage it ends at are
\* those of an evaluation made entirely with the settings in force when it
\* began, or entirely with the settings in force when it ended.
C15_Serialized ==
    [][ (evaluating.pc = "gate" /\ evaluating'.pc = "idle")
            => \E s \in {evaluating.settings, settings} :
                   LET e == EvaluateStrategy(market, evaluating.po, evaluating.headlines, s,
                                             account, positions, daily_loss_limit_hit,
                                             last_trade_time, Store, now)
                   IN  /\ pending_commands' = e.st.pending
                       /\ ev'.stage = e.stage ]_vars


-----------------------------------------------------------------------------
(* PositionAutomation with an ATR: ticks that are evaluated (the only      *)
(* place market.atr is set, state.py 207) and ticks that are not,          *)
(* snapshots of one position in profit, with and without targets.          *)

ProtectInstants == {1}              \* half a second after the first instant

ProtectTicks ==
    { MarketData("XAUUSD", 100190, 100200, TRUE),
      MarketData("XAUUSD", 100190, 100200, FALSE) }   \* market closed

\* No move predicted (the decision is HOLD), atr 0.50.
ProtectOutputs == { Predicted(100200, 50, 50, 0, 0, 50, 0, 5) }

ProtectFeeds == { << >> }

ProtectSettings ==
    { [TradeSettings EXCEPT !.auto_trade = TRUE],                              \* no targets
      [TradeSettings EXCEPT !.auto_trade = TRUE, !.pos_profit_limit = 80] }

\* One position: a BUY opened at 1000.00 or a SELL opened at 1004.00, its
\* profit 0.8 or 1.6 times the ATR, its SL unset, past the break-even level,
\* exactly 0.1 x atr short of the trailing level, or beyond it.
ProtectPositions ==
    { << PositionData(1, 0, 40, 100000, 0, 0) >>,
      << PositionData(1, 0, 80, 100000, 100020, 0) >>,
      << PositionData(1, 0, 80, 100000, 100110, 0) >>,
      << PositionData(1, 0, 80, 100000, 100150, 0) >>,
      << PositionData(2, 1, 80, 100400, 0, 0) >>,
      << PositionData(2, 1, 80, 100400, 100380, 0) >>,
      << PositionData(2, 1, 80, 100400, 100280, 0) >> }

NextProtect ==
    \/ Advance(ProtectInstants)
    \/ PriceUpdate(ProtectTicks, ProtectOutputs, ProtectFeeds)
    \/ PositionsUpdate(ProtectPositions)
    \/ SettingsUpdate(ProtectSettings)

SpecProtect == Init /\ [][NextProtect]_vars

\* C16: while the market is closed a position snapshot queues no command,
\* whatever the profits of its positions, and the stored positions become
\* those of the snapshot.
C16_ClosedMarketSnapshot ==
    [][ (ev'.handler = "POSITIONS_UPDATE" /\ ~market.is_open)
            => /\ pending_commands' = pending_commands
               /\ cmd_log' = cmd_log
               /\ positions' = ev'.data ]_vars

\* A snapshot of a position at its profit target, 1.6 ATR in profit and
\* without SL, arrived while the market was closed and the ATR known; it
\* replaced the stored positions and nothing was queued.
C16_Witness ==
    /\ ev.handler = "POSITIONS_UPDATE"
    /\ ev.stage = "closed"
    /\ market.atr > 0
    /\ settings.pos_profit_limit > 0
    /\ positions = ev.data
    /\ \E n \in 1..Len(positions) : OverLimit(positions[n], settings)
    /\ pending_commands = << >>


\* The break-even level of a position: its entry price plus the spread
\* buffer, minus for a SELL.
BreakEvenLevel(pos, symbol) ==
    IF pos.type = 0 THEN pos.price_open + BreakEvenBuffer(symbol)
    ELSE pos.price_open - BreakEvenBuffer(symbol)

\* The SL of the position is at the break-even level or beyond it.
ReachedBreakEven(pos, symbol) ==
    IF pos.type = 0 THEN pos.sl >= BreakEvenLevel(pos, symbol)
    ELSE pos.sl # 0 /\ pos.sl <= BreakEvenLevel(pos, symbol)

\* In a step: the step appended this command to pending_commands.
Queued(cmd) == \E i \in 1..Len(Appended) : Appended[i] = cmd

\* C17: a snapshot received while the market is open queues, for each position
\* whose profit is at least BREAK_EVEN_TRIGGER times the ATR and whose SL has
\* not reached the break-even level, a MODIFY_TICKET moving the SL to that
\* level, with or without targets configured; for a position whose SL has
\* reached the level it queues no such command.
C17_BreakEvenOnEverySnapshot ==
    [][ (ev'.handler = "POSITIONS_UPDATE" /\ market.is_open /\ market.atr > 0)
            => \A n \in 1..Len(ev'.data) :
                   LET pos == ev'.data[n]
                       modify == Command("MODIFY_TICKET", pos.ticket, 0,
                                         BreakEvenLevel(pos, market.symbol), pos.tp)
                       due == /\ pos.profit > 0
                              /\ ProfitInAtrAtLeast(pos.profit, market.atr, market.symbol,
                                                    BREAK_EVEN_TRIGGER)
                              /\ ~ReachedBreakEven(pos, market.symbol)
                   IN  /\ due => Queued(modify)
                       /\ ReachedBreakEven(pos, market.symbol) => ~Queued(modify) ]_vars

\* The level a trailing stop moves the SL to: TRAILING_STOP_MULT times the ATR
\* behind the current price.
TrailingLevel(pos, m) ==
    IF pos.type = 0 THEN m.bid - (m.atr * TRAILING_STOP_MULT) \div 100
    ELSE m.ask + (m.atr * TRAILING_STOP_MULT) \div 100

\* By how much a level is better than the SL of the position.
Improvement(pos, level) == IF pos.type = 0 THEN level - pos.sl ELSE pos.sl - level

TrailingModify(pos, m) == Command("MODIFY_TICKET", pos.ticket, 0, TrailingLevel(pos, m), pos.tp)

\* C18 as claimed: a trailing-stop MODIFY_TICKET is queued only for a position
\* whose profit is at least TRAILING_STOP_MULT times the ATR and whose SL the
\* new level improves on by at least 0.1 x atr, so it never moves the SL of a
\* BUY down or the SL of a SELL up from the SL of the snapshot.
C18_TrailingOnlyOnImprovement ==
    [][ ev'.handler = "POSITIONS_UPDATE"
            => \A n \in 1..Len(ev'.data) :
                   LET pos == ev'.data[n]
                   IN  Queued(TrailingModify(pos, market))
                           => /\ ProfitInAtrAtLeast(pos.profit, market.atr, market.symbol,
                                                    TRAILING_STOP_MULT)
                              /\ 10 * Improvement(pos, TrailingLevel(pos, market)) >= market.atr ]_vars

\* C18: a trailing-stop MODIFY_TICKET is queued only for a position whose
\* profit is at least TRAILING_STOP_MULT times the ATR and whose SL the new
\* level improves on by at least 0.1 x atr, or which is a SELL without SL
\* (sl = 0); so it never moves the SL of a BUY down, or a SELL's SL that is
\* set up, from the SL of the snapshot.
C18_TrailingOnlyOnImprovementOrUnset ==
    [][ ev'.handler = "POSITIONS_UPDATE"
            => \A n \in 1..Len(ev'.data) :
                   LET pos == ev'.data[n]
                   IN  Queued(TrailingModify(pos, market))
                           => /\ ProfitInAtrAtLeast(pos.profit, market.atr, market.symbol,
                                                    TRAILING_STOP_MULT)
                              /\ \/ pos.type = 1 /\ pos.sl = 0
                                 \/ 10 * Improvement(pos, TrailingLevel(pos, market)) >= market.atr ]_vars

\* The last snapshot held a position with an SL, and the handler queued the
\* trailing modify for it.
C18_Witness ==
    /\ ev.handler = "POSITIONS_UPDATE"
    /\ ev.data[1].sl # 0
    /\ pending_commands # << >>
    /\ pending_commands[Len(pending_commands)] = TrailingModify(ev.data[1], market)
    /\ cmd_log[Len(cmd_log)].t = now
    /\ cmd_log[Len(cmd_log)].src = "POSITIONS_UPDATE"


-----------------------------------------------------------------------------
(* Account snapshots, with the account-wide profit target switched on and  *)
(* off, the market open and closed, and the CLOSE_ALL button               *)
(* (ui/main_window.py 716).                                                *)

AccountInstants == {1, 2, 4}        \* 0.5 s, 1 s and 2 s after the first instant

AccountTicks ==
    { MarketData("XAUUSD", 99990, 100000, TRUE),
      MarketData("XAUUSD", 99990, 100000, FALSE) }   \* market closed

AccountOutputs == { Predicted(100000, 50, 50, 0, 0, 0, 0, 5) }

AccountFeeds == { << >> }

AccountSettings ==
    { [TradeSettings EXCEPT !.auto_profit_close = 50], TradeSettings }

AccountSnapshots ==
    { AccountData(0, 5, 0, 0),          \* nothing deposited yet
      AccountData(1000, 1040, 40, 1),   \* under the target
      AccountData(1000, 1060, 60, 1),   \* over the target
      AccountData(2000, 2060, 60, 1) }

AccountCommands == { [action |-> "CLOSE_ALL"] }

NextAccount ==
    \/ Advance(AccountInstants)
    \/ PriceUpdate(AccountTicks, AccountOutputs, AccountFeeds)
    \/ AccountUpdate(AccountSnapshots)
    \/ SettingsUpdate(AccountSettings)
    \/ TradeCommand(AccountCommands)

SpecAccount == Init /\ [][NextAccount]_vars

\* Log entries of the CLOSE_ALL commands queued by the handler src.
CloseAllsBy(src) ==
    { i \in 1..Len(cmd_log) : cmd_log[i].src = src /\ cmd_log[i].cmd[1] = "CLOSE_ALL" }

\* In a step: an account snapshot that meets the target while the market is
\* open and the sentinel key was not set less than 2 s before.
TargetDue ==
    /\ settings.auto_profit_close > 0
    /\ account'.profit >= settings.auto_profit_close
    /\ market.is_open
    /\ ~(CloseAllKey \in DOMAIN sent_closures /\ now - sent_closures[CloseAllKey] < 2 * ONE_SECOND)

\* In a step: the step appended a CLOSE_ALL to pending_commands.
QueuedCloseAll == \E i \in 1..Len(Appended) : Appended[i][1] = "CLOSE_ALL"

\* C19 as claimed: an account snapshot queues CLOSE_ALL exactly when the
\* target is enabled, the floating profit has reached it, the market is open
\* and the sentinel key was not set within the last 2 s.
C19_CloseAllIffTarget ==
    [][ ev'.handler = "ACCOUNT_UPDATE" => (QueuedCloseAll <=> TargetDue) ]_vars

\* The TRADE_COMMAND path accepted a CLOSE_ALL less than 1 s ago.
JustClosedAll ==
    /\ ActionKey("CLOSE_ALL", "") \in DOMAIN sent_closures
    /\ now - sent_closures[ActionKey("CLOSE_ALL", "")] < ONE_SECOND

\* C19: an account snapshot queues CLOSE_ALL exactly when the target is
\* enabled, the floating profit has reached it, the market is open, the
\* sentinel key was not set within the last 2 s and no CLOSE_ALL went through
\* the command path within the last second; any two CLOSE_ALL commands queued
\* by account snapshots are at least 2 s apart.
C19_CloseAllIffTargetAndNoRecentCommand ==
    /\ [](\A i, j \in CloseAllsBy("ACCOUNT_UPDATE") :
             i < j => cmd_log[j].t - cmd_log[i].t >= 2 * ONE_SECOND)
    /\ [][ ev'.handler = "ACCOUNT_UPDATE"
               => (QueuedCloseAll <=> (TargetDue /\ ~JustClosedAll)) ]_vars

\* An account snapshot queued CLOSE_ALL, and the snapshot taken one second
\* later, the profit still over the target and the market open, queued
\* nothing.
C19_Witness ==
    /\ ev.handler = "ACCOUNT_UPDATE"
    /\ market.is_open
    /\ settings.auto_profit_close > 0
    /\ account.profit >= settings.auto_profit_close
    /\ Cardinality(CloseAllsBy("ACCOUNT_UPDATE")) = 1
    /\ \E i \in CloseAllsBy("ACCOUNT_UPDATE") : now - cmd_log[i].t = ONE_SECOND

\* An account snapshot has been received (every snapshot sent differs from
\* the initial, empty account).
SnapshotSeen == account # AccountData(0, 0, 0, 0)

\* C20: day_start_balance is the balance of the first account snapshot, and
\* no later event changes it, whatever balances the snapshots carry.
C20_DayStartBalanceCapturedOnce ==
    [][ /\ (ev'.handler = "ACCOUNT_UPDATE" /\ ~SnapshotSeen) => day_start_balance' = account'.balance
        /\ SnapshotSeen => day_start_balance' = day_start_balance ]_vars


-----------------------------------------------------------------------------
(* The reversal exit of an evaluation (state.py 264-270), under SpecGate.  *)

\* In a step: the CLOSE_TICKET commands the step appended, as their tickets.
ClosedTickets == { Appended[i][2] : i \in { j \in 1..Len(Appended) : Appended[j][1] = "CLOSE_TICKET" } }

\* The tickets of the stored positions whose side opposes the decision.
Opposite(decision) ==
    { positions[n].ticket : n \in { k \in 1..Len(positions) :
          \/ decision = "BUY" /\ positions[k].type = 1
          \/ decision = "SELL" /\ positions[k].type = 0 } }

\* C21: an evaluation whose decision is BUY or SELL with finalConfidence of at
\* least 90 and which no stage vetoes queues a CLOSE_TICKET for every open
\* position opposing the decision, ahead of its entry command; it closes no
\* position on the side of the decision; with finalConfidence below 90 an
\* evaluation queues no CLOSE_TICKET.
C21_ReversalExit ==
    [][ (ev'.handler = "PRICE_UPDATE" /\ ev'.stage \in Vetoes \cup {"emitted"})
            => LET decision == fusion'.run.signal
                   final_conf == fusion'.run.final_conf
               IN  /\ (ev'.stage = "emitted" /\ final_conf >= 90 * CONF_SCALE)
                          => /\ ClosedTickets = Opposite(decision)
                             /\ IsEntry(Appended[Len(Appended)])
                             /\ \A i \in 1..(Len(Appended) - 1) : Appended[i][1] = "CLOSE_TICKET"
                   /\ ClosedTickets \subseteq Opposite(decision)
                   /\ final_conf < 90 * CONF_SCALE => ClosedTickets = {} ]_vars


-----------------------------------------------------------------------------
(* What an evaluation touches besides its result: the predictor's rolling  *)
(* window (ai/predictor.py 47-57, 161-166) and the news cache              *)
(* (news/base.py 12-70).  Here fusion also carries the predictor, the      *)
(* cache and the number of evaluations made.                               *)

\* predictor: [model: a trained model is loaded, history_len, price: what the
\* model returns once the window holds 14 prices].  wander: the draw of
\* np.random.normal(0, 0.05), in points.
predict_price(predictor, ask, wander) ==
    LET len == Min(predictor.history_len + 1, 300)       \* lines 53-55
    IN  [ price |-> IF predictor.model /\ len >= 14
                    THEN predictor.price                  \* lines 57-154
                    ELSE ask + wander,                    \* line 166
          predictor |-> [predictor EXCEPT !.history_len = len] ]

\* news/base.py 14-40.  time.time() is far beyond 1800, so an entry whose
\* last_fetch is still 0 is never fresh.
fetch_news(cache, symbol, t) ==
    IF symbol \in DOMAIN cache
       /\ (  (cache[symbol].last_fetch # 0 /\ t - cache[symbol].last_fetch < 1800 * ONE_SECOND)
          \/ cache[symbol].is_fetching)
    THEN [ data |-> cache[symbol].data, cache |-> cache ]
    ELSE LET entry == IF symbol \in DOMAIN cache THEN cache[symbol]
                      ELSE [data |-> << >>, last_fetch |-> 0, is_fetching |-> FALSE]
         IN  [ data |-> entry.data,
               cache |-> [ k \in DOMAIN cache \cup {symbol} |->
                             IF k = symbol THEN [entry EXCEPT !.is_fetching = TRUE]
                             ELSE cache[k] ] ]

\* news/base.py 42-70: the thread started by fetch_news ends, with headlines
\* (fetched = TRUE) or without.
background_fetch(cache, symbol, fetched, headlines, t) ==
    [cache EXCEPT ![symbol] =
        IF fetched THEN [data |-> headlines, last_fetch |-> t, is_fetching |-> FALSE]
        ELSE [@ EXCEPT !.is_fetching = FALSE]]

PureSymbol == "XAUUSD"

\* np.random.normal(0, 0.05): below, at and above the ask
Wander == { -5, 0, 5 }

PureStates ==
    { [ buy_threshold |-> 75, sell_threshold |-> 75, ai_prediction |-> 0,
        ai_confidence |-> 0, current_ask |-> 100000, rsi |-> rsi, sma10 |-> sma10,
        stoch_k |-> k, ema20 |-> 99990, history_len |-> 30, headlines |-> << >> ] :
      rsi \in {30, 50, 70}, sma10 \in {99990, 100010}, k \in {10, 50, 90} }

PurePredictors ==
    { [ model |-> m, history_len |-> n, price |-> 100070 ] :
      m \in BOOLEAN, n \in {0, 12, 13, 299, 300} }

PureFeeds == { << Headline(TRUE, FALSE) >> }

\* How many evaluations a behaviour makes.
MaxRuns == 2

InitPure ==
    /\ InitStore
    /\ fusion \in { [state |-> st, run |-> None, predictor |-> p, news_cache |-> << >>,
                     runs |-> 0] : st \in PureStates, p \in PurePredictors }

PureUnchanged ==
    UNCHANGED << now, market, account, settings, is_connected, last_heartbeat,
                 pending_commands, pending_command, positions, last_trade_time,
                 sent_closures, day_start_balance, daily_loss_limit_hit,
                 last_strategy_eval, cmd_log, slot_id, wire, bus, evaluating, watchdog, reported >>

\* The fusion part of evaluate_strategy (state.py 197-245): predict_price, the
\* confidence, and SimpleStrategy.run with the headlines of fetch_news.
Fuse(wanders) ==
    /\ fusion.runs < MaxRuns
    /\ \E wander \in wanders :
           LET p == predict_price(fusion.predictor, fusion.state.current_ask, wander)
               n == fetch_news(fusion.news_cache, PureSymbol, now)
               state == [fusion.state EXCEPT
                            !.ai_prediction = p.price,
                            !.ai_confidence = RawConfidence(p.price, fusion.state.current_ask,
                                                            fusion.state.buy_threshold),
                            !.headlines = n.data]
           IN  fusion' = [ state |-> state, run |-> Run(state), predictor |-> p.predictor,
                           news_cache |-> n.cache, runs |-> fusion.runs + 1 ]
    /\ ev' = [handler |-> "evaluate_strategy", stage |-> fusion'.run.signal, resp |-> << >>]
    /\ PureUnchanged

BackgroundFetch(feeds) ==
    /\ PureSymbol \in DOMAIN fusion.news_cache
    /\ fusion.news_cache[PureSymbol].is_fetching
    /\ \E fetched \in BOOLEAN, headlines \in feeds :
           fusion' = [fusion EXCEPT !.news_cache =
                          background_fetch(@, PureSymbol, fetched, headlines, now)]
    /\ ev' = [handler |-> "_background_fetch", stage |-> "none", resp |-> << >>]
    /\ PureUnchanged

NextPure ==
    \/ Fuse(Wander)
    \/ BackgroundFetch(PureFeeds)

SpecPure == InitPure /\ [][NextPure]_vars

\* C22: an evaluation leaves the predictor's rolling window and the news
\* cache as they were, and an evaluation made again on the same tick,
\* settings, indicators and headlines returns the same direction, confidence
\* and decision.
C22_DeterministicAndPure ==
    [][ ev'.handler = "evaluate_strategy"
            => /\ fusion'.predictor = fusion.predictor
               /\ fusion'.news_cache = fusion.news_cache
               /\ (fusion.runs > 0 /\ fusion'.state.headlines = fusion.state.headlines)
                      => /\ fusion'.run.direction = fusion.run.direction
                         /\ fusion'.run.final_conf = fusion.run.final_conf
                         /\ fusion'.run.signal = fusion.run.signal ]_vars


-----------------------------------------------------------------------------
(* Settings changes while the predictor collects prices.                   *)

SymbolSettings ==
    { [TradeSettings EXCEPT !.symbol = symbol, !.lot = lot] :
      symbol \in {"", "XAUUSD", "EURUSD"}, lot \in {1, 2} }

SymbolPredictors ==
    { [ model |-> m, history_len |-> n, price |-> 100070 ] :
      m \in BOOLEAN, n \in {0, 13} }

InitSymbol ==
    /\ InitStore
    /\ fusion \in { [state |-> st, run |-> None, predictor |-> p, news_cache |-> << >>,
                     runs |-> 0] :
                    st \in { x \in PureStates : x.rsi = 50 /\ x.stoch_k = 50 },
                    p \in SymbolPredictors }

NextSymbol ==
    \/ Fuse({0})
    \/ SettingsUpdate(SymbolSettings)

SpecSymbol == InitSymbol /\ [][NextSymbol]_vars

SymbolChanged == ev'.data.symbol # "" /\ ev'.data.symbol # settings.symbol

\* C23: a SETTINGS_CHANGE whose symbol is non-empty and differs from the
\* stored one clears the predictor's window and queues exactly one
\* CHANGE_SYMBOL naming the new symbol; with the symbol unchanged nothing is
\* queued and the window is untouched; either way the stored settings are
\* the received ones afterwards.
C23_SymbolChange ==
    [][ ev'.handler = "SETTINGS_CHANGE"
            => /\ settings' = ev'.data
               /\ SymbolChanged
                      => /\ fusion'.predictor.history_len = 0
                         /\ Len(Appended) = 1
                         /\ Appended[1][1] = "CHANGE_SYMBOL"
                         /\ Appended[1][2] = ev'.data.symbol
               /\ ev'.data.symbol = settings.symbol
                      => /\ Appended = << >>
                         /\ fusion'.predictor = fusion.predictor ]_vars

\* A window holding prices was cleared by a change from one symbol to another.
C23_Witness ==
    /\ ev.handler = "SETTINGS_CHANGE"
    /\ ev.stage = "symbol"
    /\ settings.symbol = "EURUSD"
    /\ fusion.predictor.history_len = 0
    /\ fusion.runs > 0
    /\ Len(cmd_log) = 2
    /\ cmd_log[1].cmd[2] = "XAUUSD"
    /\ cmd_log[2].cmd[1] = "CHANGE_SYMBOL"
    /\ cmd_log[2].cmd[2] = "EURUSD"


-----------------------------------------------------------------------------
(* Ticks while the connection is lost and found again, with automated      *)
(* trading off and on.                                                     *)

TickInstants == {1, 2}              \* 0.5 s and 1 s after start-up

TickTicks ==
    { MarketData("XAUUSD", 99990, 100000, TRUE),
      MarketData("XAUUSD", 99980, 99990, TRUE),
      MarketData("XAUUSD", 99980, 99990, FALSE) }

TickOutputs ==
    { Predicted(100000, 50, 50, 0, 0, 0, 0, 5),                  \* HOLD
      Predicted(100070, 70, 10, 99990, 99950, 50, 99990, 30) }   \* up 93 %

TickFeeds == { << >> }

TickSettings == { TradeSettings, [TradeSettings EXCEPT !.auto_trade = TRUE] }

NextTick ==
    \/ Advance(TickInstants)
    \/ PriceUpdate(TickTicks, TickOutputs, TickFeeds)
    \/ SettingsUpdate(TickSettings)
    \/ Disconnect

SpecTick == Init /\ [][NextTick]_vars

\* The fields of a MarketData that the agent sends (server.py 94-106).
Sent(m) == [symbol |-> m.symbol, bid |-> m.bid, ask |-> m.ask, is_open |-> m.is_open]

\* C24: after a tick is handled, with automated trading off or on, evaluated
\* or throttled, the stored market is the tick received, the heartbeat is
\* the time of the tick and the store is connected; the handler emits
\* CONNECTION_CHANGE only when the store was disconnected.
C24_TickStored ==
    [][ ev'.handler = "PRICE_UPDATE"
            => /\ Sent(market') = Sent(ev'.data)
               /\ last_heartbeat' = now'
               /\ is_connected'
               /\ ev'.emits # << >> => ~is_connected ]_vars

\* A throttled tick replaced the market of the tick evaluated before it,
\* and a tick after a disconnect emitted CONNECTION_CHANGE.
C24_Witness ==
    /\ ev.handler = "PRICE_UPDATE"
    /\ ev.stage = "throttled"
    /\ ev.emits = << "CONNECTION_CHANGE" >>
    /\ market = MarketData("XAUUSD", 99980, 99990, FALSE)
    /\ last_strategy_eval = now
    /\ last_heartbeat = now


-----------------------------------------------------------------------------
(* The connection watchdog, MT5ControllerGUI._connection_watchdog          *)
(* (gui.py 417-421), a thread of its own (gui.py 68).  It reads the time   *)
(* of the last message as state.last_poll_time and disconnects through     *)
(* state.update_connection; AppState keeps that time in last_heartbeat and *)
(* sets is_connected in _on_connection_change (state.py 140-146).  The     *)
(* test of line 420 and the call of line 421 are two steps: nothing keeps  *)
(* the server thread from handling a tick in between.                      *)

\* gui.py 419-420
WatchdogCheck ==
    /\ watchdog.pc = "sleep"
    /\ IF is_connected /\ now - last_heartbeat > 5 * ONE_SECOND
       THEN /\ watchdog' = [pc |-> "decided", decided_at |-> now]
            /\ ev' = [handler |-> "watchdog", stage |-> "decided", resp |-> << >>]
       ELSE /\ watchdog' = watchdog
            /\ ev' = [handler |-> "watchdog", stage |-> "none", resp |-> << >>]
    /\ fusion' = NoFusion
    /\ UNCHANGED << now, market, account, settings, is_connected, last_heartbeat,
                    pending_commands, pending_command, positions, last_trade_time,
                    sent_closures, day_start_balance, daily_loss_limit_hit,
                    last_strategy_eval, cmd_log, slot_id, wire, bus, evaluating, reported >>

\* gui.py 421
WatchdogAct ==
    /\ watchdog.pc = "decided"
    /\ watchdog' = [watchdog EXCEPT !.pc = "sleep"]
    /\ is_connected' = FALSE
    /\ ev' = [handler |-> "CONNECTION_CHANGE", stage |-> "none", resp |-> << >>]
    /\ fusion' = NoFusion
    /\ UNCHANGED << now, market, account, settings, last_heartbeat,
                    pending_commands, pending_command, positions, last_trade_time,
                    sent_closures, day_start_balance, daily_loss_limit_hit,
                    last_strategy_eval, cmd_log, slot_id, wire, bus, evaluating, reported >>

WatchInstants == {11, 12}           \* 5.5 s and 6 s after start-up

WatchTicks == { MarketData("XAUUSD", 99990, 100000, TRUE) }

WatchOutputs ==
    { Predicted(100000, 50, 50, 0, 0, 0, 0, 5),                  \* HOLD
      Predicted(100070, 70, 10, 99990, 99950, 50, 99990, 30) }   \* up 93 %

WatchFeeds == { << >> }

WatchSettings == { TradeSettings, [TradeSettings EXCEPT !.auto_trade = TRUE] }

NextWatch ==
    \/ Advance(WatchInstants)
    \/ TickBegin(WatchTicks, WatchOutputs, WatchFeeds)
    \/ TickEnd
    \/ SettingsUpdate(WatchSettings)
    \/ WatchdogCheck
    \/ WatchdogAct

SpecWatch == Init /\ [][NextWatch]_vars

\* The handling of a tick ends in this step.
TickHandled == ev'.handler = "PRICE_UPDATE" /\ evaluating'.pc = "idle"

-----------------------------------------------------------------------------
(* Disconnects while commands wait: in pending_commands, and in the slot   *)
(* the agent's poll reads.                                                 *)

LostInstants == {2}                 \* 1 s after the first instant

LostTicks == { MarketData("XAUUSD", 99990, 100000, TRUE) }

LostOutputs == { Predicted(100000, 50, 50, 0, 0, 0, 0, 5) }

LostFeeds == { << >> }

LostSettings == { [TradeSettings EXCEPT !.auto_trade = TRUE, !.symbol = "XAUUSD"] }

LostAccounts == { AccountData(1000, 940, -60, 1) }      \* drawdown 6 %

LostPositions == { << PositionData(1, 0, -60, 100100, 0, 0) >> }

LostCommands == { [action |-> "CLOSE_ALL"] }

LostActions == { "BUY" }

NextLost ==
    \/ Advance(LostInstants)
    \/ PriceUpdate(LostTicks, LostOutputs, LostFeeds)
    \/ AccountUpdate(LostAccounts)
    \/ PositionsUpdate(LostPositions)
    \/ SettingsUpdate(LostSettings)
    \/ Disconnect
    \/ TradeCommand(LostCommands)
    \/ QueueCommand(LostActions)
    \/ Poll

SpecLost == Init /\ [][NextLost]_vars

\* Every command of pending_commands is still there, in place, after the step.
StillQueued ==
    /\ Len(pending_commands') >= Len(pending_commands)
    /\ SubSeq(pending_commands', 1, Len(pending_commands)) = pending_commands

\* C26: a CONNECTION_CHANGE(False) sets is_connected to false and changes
\* nothing of the settings, the commands waiting, the positions, the
\* account, the dedupe entries, last_trade_time and daily_loss_limit_hit;
\* and no step taken at a disconnect or while disconnected, other than the
\* agent's poll, removes a waiting command.
C26_DisconnectIsPure ==
    [][ /\ ev'.handler = "CONNECTION_CHANGE"
               => /\ ~is_connected'
                  /\ UNCHANGED << settings, pending_commands, pending_command, positions,
                                  account, sent_closures, last_trade_time,
                                  daily_loss_limit_hit >>
        /\ ((~is_connected \/ ~is_connected') /\ ev'.handler # "do_POST")
               => /\ StillQueued
                  /\ pending_command' = pending_command ]_vars

\* The store was disconnected with automated trading on, the loss limit hit,
\* a position open, a dedupe entry and commands waiting in both places.
C26_Witness ==
    /\ ev.handler = "CONNECTION_CHANGE"
    /\ ~is_connected
    /\ settings.auto_trade
    /\ daily_loss_limit_hit
    /\ positions # << >>
    /\ sent_closures # << >>
    /\ pending_commands # << >>
    /\ pending_command = Command("BUY", "XAUUSDm", 1, 0, 0)


-----------------------------------------------------------------------------
(* Evaluations in which a capability raises.                               *)

FaultInstants == {1, 60}

FaultTicks == { MarketData("XAUUSD", 99990, 100000, TRUE) }

FaultOutputs ==
    { Predicted(100000, 50, 50, 0, 0, 0, 0, 5),                  \* HOLD
      Predicted(100070, 70, 10, 99990, 99950, 50, 99990, 30),    \* up 93 %
      Predicted(100200, 70, 10, 99990, 99950, 50, 99990, 30) }   \* up, raw confidence at the cap of 120

FaultFeeds == { << >>, << Headline(TRUE, FALSE) >> }

FaultSettings == { TradeSettings, [TradeSettings EXCEPT !.auto_trade = TRUE] }

\* Nothing raises, or one capability does.
Faults == { {} } \cup { {c} : c \in Capabilities }

PriceUpdateRaising(faulty, ticks, outputs, feeds) ==
    \E faults \in faulty, data \in ticks, po \in outputs, headlines \in feeds :
        OnPriceUpdateRaising(faults, data, po, headlines)

NextFault ==
    \/ Advance(FaultInstants)
    \/ PriceUpdateRaising(Faults, FaultTicks, FaultOutputs, FaultFeeds)
    \/ SettingsUpdate(FaultSettings)

SpecFault == Init /\ [][NextFault]_vars

\* An evaluation in which a capability raised ends in this step.
FaultyEvaluation ==
    /\ ev'.handler = "PRICE_UPDATE"
    /\ ev'.stage \notin {"off", "throttled"}
    /\ ev'.faults # {}

\* C27: an evaluation in which the pattern classifier or the news
\* capability raises is not aborted: it goes on to a decision, the failed
\* input at its neutral default, and the handler of the tick ends normally.
\* (A fault inside the predictor arrives as a prediction equal to the ask.)
C27_FaultDegrades ==
    [][ FaultyEvaluation
            => /\ ev'.stage # "error"
               /\ last_strategy_eval' = now' ]_vars


-----------------------------------------------------------------------------
(* MT5Handler._process_data (server.py 60-139).  A message is the dict of  *)
(* its form fields, a record holding the keys present.  A numeric field is *)
(* its text: Num(n) for text that float() or int() reads as n, NaN for     *)
(* text they raise ValueError on.  The positions field is the sequence of  *)
(* its '|'-separated entries, each the sequence of its ':'-separated       *)
(* fields.                                                                 *)

Num(n) == [ok |-> TRUE, v |-> n]
NaN == [ok |-> FALSE]

\* The first n elements of fields that exist.
Upto(fields, n) == SubSeq(fields, 1, Min(n, Len(fields)))

\* float() and int() over the fields in the order they are evaluated: the
\* values, or the failure of the first one that raises.
Parsed(fields) ==
    IF \E i \in 1..Len(fields) : ~fields[i].ok
    THEN [raised |-> TRUE]
    ELSE [raised |-> FALSE, v |-> [i \in 1..Len(fields) |-> fields[i].v]]

\* Lines 94-106
MarketPart(data) ==
    LET p == Parsed(<< Get(data, "bid", Num(0)), Get(data, "ask", Num(0)) >>)
        symbol == Get(data, "symbol", "")
    IN  IF p.raised THEN [raised |-> TRUE, emitted |-> << >>]
        ELSE [ raised |-> FALSE,
               emitted |-> IF symbol # "" /\ p.v[1] > 0
                           THEN << << "PRICE_UPDATE",
                                      MarketData(symbol, p.v[1], p.v[2],
                                                 Get(data, "market", "") = "OPEN") >> >>
                           ELSE << >> ]

\* Lines 109-119
AccountPart(data) ==
    IF "balance" \notin DOMAIN data THEN [raised |-> FALSE, emitted |-> << >>]
    ELSE LET p == Parsed(<< data.balance, Get(data, "equity", Num(0)),
                            Get(data, "margin", Num(0)), Get(data, "free_margin", Num(0)),
                            Get(data, "profit", Num(0)), Get(data, "pos_count", Num(0)) >>)
         IN  IF p.raised THEN [raised |-> TRUE, emitted |-> << >>]
             ELSE [ raised |-> FALSE,
                    emitted |-> << << "ACCOUNT_UPDATE",
                                      AccountData(p.v[1], p.v[2], p.v[5], p.v[6]) >> >> ]

\* Lines 127-135: the entries with at least two fields, ticket and profit.
RECURSIVE PositionsList(_)
PositionsList(parts) ==
    IF parts = << >> THEN [raised |-> FALSE, v |-> << >>]
    ELSE LET fields == Head(parts)
             rest == PositionsList(Tail(parts))
         IN  IF Len(fields) >= 2
             THEN LET p == Parsed(Upto(fields, 2))
                  IN  IF p.raised \/ rest.raised THEN [raised |-> TRUE]
                      ELSE [ raised |-> FALSE,
                             v |-> << [ticket |-> p.v[1], profit |-> p.v[2]] >> \o rest.v ]
             ELSE rest

\* Lines 122-136
PositionsPart(data) ==
    IF "positions" \notin DOMAIN data THEN [raised |-> FALSE, emitted |-> << >>]
    ELSE LET l == PositionsList(data.positions)
         IN  IF l.raised THEN [raised |-> TRUE, emitted |-> << >>]
             ELSE [raised |-> FALSE, emitted |-> << << "POSITIONS_UPDATE", l.v >> >>]

\* Lines 61-139: one try around the three parts; the events emitted, in
\* order, and whether the except clause was reached.
process_data(data) ==
    IF "history" \in DOMAIN data
    THEN [emitted |-> << >>, raised |-> FALSE]                     \* lines 63-91
    ELSE LET m == MarketPart(data)
             a == AccountPart(data)
             p == PositionsPart(data)
         IN  IF m.raised THEN [emitted |-> << >>, raised |-> TRUE]
             ELSE IF a.raised THEN [emitted |-> m.emitted, raised |-> TRUE]
             ELSE [emitted |-> m.emitted \o a.emitted \o p.emitted, raised |-> p.raised]

\* A message built from the parts it carries.
Message(parts) ==
    [ k \in UNION { DOMAIN parts[i] : i \in 1..Len(parts) } |->
        LET i == CHOOSE j \in 1..Len(parts) : k \in DOMAIN parts[j] IN parts[i][k] ]

NoPart == << >>

MarketParts ==
    { NoPart,
      [symbol |-> "XAUUSD", bid |-> Num(99990), ask |-> Num(100000), market |-> "OPEN"],
      [symbol |-> "XAUUSD", bid |-> Num(99980), ask |-> Num(99990), market |-> "CLOSED"],
      [symbol |-> "XAUUSD", bid |-> NaN, ask |-> Num(100000), market |-> "OPEN"],
      [symbol |-> "XAUUSD", bid |-> Num(99990), ask |-> NaN, market |-> "OPEN"] }

AccountParts ==
    { NoPart,
      [balance |-> Num(1000), equity |-> Num(1040), profit |-> Num(40), pos_count |-> Num(1)],
      [balance |-> NaN, equity |-> Num(1040), profit |-> Num(40), pos_count |-> Num(1)],
      [balance |-> Num(1000), equity |-> Num(1040), profit |-> Num(40), pos_count |-> NaN] }

PositionsParts ==
    { NoPart,
      [positions |-> << >>],
      [positions |-> << << Num(1), Num(40) >> >>],
      [positions |-> << << Num(1), Num(40) >>, << Num(2), Num(-5) >> >>],
      [positions |-> << << Num(1) >>, << Num(2), Num(-5) >> >>],
      [positions |-> << << NaN, Num(40) >> >>],
      [positions |-> << << Num(1), Num(40) >>, << Num(2), NaN >> >>] }

HistoryParts == { NoPart, [history |-> "candles"] }

Messages ==
    { Message(<< m, a, p, h >>) :
      m \in MarketParts, a \in AccountParts, p \in PositionsParts, h \in HistoryParts }

\* A message arrives: what _process_data emits for it.
ProcessData(messages) ==
    /\ \E data \in messages :
           LET r == process_data(data)
           IN  ev' = [handler |-> "_process_data",
                      stage |-> IF r.raised THEN "warning" ELSE "none", resp |-> << >>,
                      data |-> data, emitted |-> r.emitted]
    /\ fusion' = NoFusion
    /\ UNCHANGED << now, market, account, settings, is_connected, last_heartbeat,
                    pending_commands, pending_command, positions, last_trade_time,
                    sent_closures, day_start_balance, daily_loss_limit_hit,
                    last_strategy_eval, cmd_log, slot_id, wire, bus, evaluating, watchdog, reported >>

NextInbound == ProcessData(Messages)

SpecInbound == Init /\ [][NextInbound]_vars

\* The event types emitted for the last message.
EmittedTypes == { ev.emitted[i][1] : i \in 1..Len(ev.emitted) }

\* C28: a malformed field drops only the update that contains it.  For a
\* message that is not a history batch: a price tick whose fields are well
\* formed is emitted, so is an account snapshot, and so is a position
\* snapshot, whatever the other parts of the message hold.
C28_MalformedFieldDropsOneUpdate ==
    (ev.handler = "_process_data" /\ "history" \notin DOMAIN ev.data)
        => /\ (~MarketPart(ev.data).raised /\ MarketPart(ev.data).emitted # << >>)
                  => "PRICE_UPDATE" \in EmittedTypes
           /\ (~AccountPart(ev.data).raised /\ AccountPart(ev.data).emitted # << >>)
                  => "ACCOUNT_UPDATE" \in EmittedTypes
           /\ (~PositionsPart(ev.data).raised /\ PositionsPart(ev.data).emitted # << >>)
                  => "POSITIONS_UPDATE" \in EmittedTypes


-----------------------------------------------------------------------------
(* The two places a command waits in: the list pending_commands and the    *)
(* slot pending_command.                                                   *)

\* The slot holds a command.
SlotTaken(slot) == slot # Unset /\ slot # Empty

\* Commands waiting in the list and in the slot.
Waiting(pending, slot) == Len(pending) + (IF SlotTaken(slot) THEN 1 ELSE 0)

\* A capacity below the number of commands a behaviour accepts.
Capacity == MaxCommands - 1

\* C29: in every reachable state the commands waiting number at most a fixed
\* capacity, whatever is queued between two polls.
C29_BoundedFifo == Waiting(pending_commands, pending_command) <= Capacity

\* C30: a command emitted by the RiskGate with ATR a is a BUY with
\* sl = ask - a and tp = ask + a * reward_mult, or a SELL with sl = ask + a
\* and tp = ask - a * reward_mult, for the symbol of the market, and
\* last_trade_time is the time of the evaluation.
C30_EmittedLevels ==
    [][ (ev'.handler = "PRICE_UPDATE" /\ ev'.stage = "emitted")
            => LET cmd == Appended[Len(Appended)]
                   ask == market'.ask
                   a == market'.atr
                   reward == (a * RewardMult(market'.confidence)) \div 100
               IN  /\ cmd[1] = fusion'.run.signal
                   /\ cmd[2] = market'.symbol
                   /\ cmd[1] = "BUY" => cmd[4] = ask - a /\ cmd[5] = ask + reward
                   /\ cmd[1] = "SELL" => cmd[4] = ask + a /\ cmd[5] = ask - reward
                   /\ cmd[1] \in {"BUY", "SELL"}
                   /\ last_trade_time' = now' ]_vars

\* A SELL was emitted with its stop above and its target below the ask.
C30_Witness ==
    /\ ev.handler = "PRICE_UPDATE"
    /\ ev.stage = "emitted"
    /\ market.atr = 50
    /\ cmd_log[Len(cmd_log)].cmd[1] = "SELL"
    /\ cmd_log[Len(cmd_log)].cmd[2] = "XAUUSD"
    /\ cmd_log[Len(cmd_log)].cmd[4] = market.ask + 50
    /\ cmd_log[Len(cmd_log)].cmd[5] < market.ask - 50
    /\ last_trade_time = now


-----------------------------------------------------------------------------
(* Reward scaling and position sizing of the entries the RiskGate emits.   *)

\* clamp(x, lo, hi)
Clamp(x, lo, hi) == Max(lo, Min(hi, x))

\* The multiplier applied to a confidence c (hundredths of a percent) when
\* conf_norm = clamp((c - floor) / (100 - floor), 0, 1), in hundredths.
ScaledReward(c) ==
    LET floor == MIN_CONFIDENCE_FOR_TRADE * CONF_SCALE
        span == 100 * CONF_SCALE - floor
    IN  TP_MIN_MULT + (Clamp(c - floor, 0, span) * (TP_MAX_MULT - TP_MIN_MULT)) \div span

\* The take-profit distance of the entry appended in this step.
TpDistance == Abs(Appended[Len(Appended)][5] - market'.ask)

\* C31: the take-profit distance of an emitted entry is atr * reward_mult,
\* reward_mult being TP_MIN_MULT at finalConfidence equal to the floor,
\* TP_MAX_MULT at finalConfidence 100 and above, and linear in between.
C31_RewardScaling ==
    [][ (ev'.handler = "PRICE_UPDATE" /\ ev'.stage = "emitted")
            => TpDistance = (market'.atr * ScaledReward(fusion'.run.final_conf)) \div 100 ]_vars


LotInstants == {60}                 \* 30 s after start-up

LotTicks ==
    { MarketData("XAUUSD", 99990, 100000, TRUE),
      MarketData("EURUSD", 99990, 100000, TRUE) }

LotOutputs ==
    { Predicted(100070, 70, 10, 99990, 99950, 50, 99990, 30),    \* up 93 %, atr 0.50
      Predicted(100070, 50, 50, 0, 0, 0, 0, 5),                  \* wander up 93 %, window not warmed up: atr 0
      Predicted(99930, 30, 90, 100010, 100050, 50, 100010, 30) } \* down 93 %, atr 0.50

LotFeeds == { << >> }

LotAccounts ==
    { AccountData(20, 20, 0, 0), AccountData(1000, 1000, 0, 0),
      AccountData(100000, 100000, 0, 0) }

LotSettings ==
    { [TradeSettings EXCEPT !.auto_trade = TRUE, !.lot = 500],
      [TradeSettings EXCEPT !.auto_trade = TRUE, !.lot = 500, !.auto_lot = TRUE] }

NextLot ==
    \/ Advance(LotInstants)
    \/ PriceUpdate(LotTicks, LotOutputs, LotFeeds)
    \/ AccountUpdate(LotAccounts)
    \/ SettingsUpdate(LotSettings)

SpecLot == Init /\ [][NextLot]_vars

\* round(a / b, 0), halves up
Rounded(a, b) == (2 * a + b) \div (2 * b)

\* clamp(balance * risk_fraction / (sl_distance * contract_scale), MIN_LOT,
\* MAX_LOT) in hundredths of a lot, for sl_distance in points.
ClampedLot(balance, sl_distance, symbol) ==
    Clamp(Rounded(balance * RISK_PER_TRADE * (IF IsXAU(symbol) THEN 1 ELSE 100), sl_distance),
          MIN_LOT_SIZE, MAX_LOT_SIZE)

\* C32: with auto-lot on, the lot of an emitted entry is within [MIN_LOT,
\* MAX_LOT] for every balance and ATR, and is the clamped risk-based size;
\* with auto-lot off it is the manual lot.
C32_LotSizing ==
    [][ (ev'.handler = "PRICE_UPDATE" /\ ev'.stage = "emitted")
            => LET lot == Appended[Len(Appended)][3]
               IN  IF settings.auto_lot
                   THEN /\ lot >= MIN_LOT_SIZE /\ lot <= MAX_LOT_SIZE
                        /\ market'.atr > 0
                               => lot = ClampedLot(account.balance, market'.atr, market'.symbol)
                   ELSE lot = settings.lot ]_vars


-----------------------------------------------------------------------------
(* The raw confidence over thresholds from 0 up and predicted moves from   *)
(* none to far beyond the threshold.                                       *)

ConfidenceInstants == {1}

ConfidenceTicks ==
    { MarketData("XAUUSD", 99990, 100000, TRUE),
      MarketData("XAUUSD", 99990, 0, TRUE) }       \* no ask in the message

\* Predicted prices around the ask 1000.00.
Predictions == { 99800, 99930, 99996, 100000, 100004, 100040, 100070, 100200 }

ConfidenceOutputs == { Predicted(p, 50, 50, 0, 0, 50, 0, 5) : p \in Predictions }

ConfidenceFeeds == { << >> }

\* buy_threshold 0, 0.05, 0.1, 0.75 and 2.0
ConfidenceSettings ==
    { [TradeSettings EXCEPT !.auto_trade = TRUE, !.buy_threshold = b] :
      b \in {0, 5, 10, 75, 200} }

NextConfidence ==
    \/ Advance(ConfidenceInstants)
    \/ PriceUpdate(ConfidenceTicks, ConfidenceOutputs, ConfidenceFeeds)
    \/ SettingsUpdate(ConfidenceSettings)

SpecConfidence == Init /\ [][NextConfidence]_vars

\* min(|predicted_change_pct| / max(buy_threshold / 1000, 0.0001) * 100, 120)
\* in hundredths of a percent, for buy_threshold in hundredths.
FlooredConfidence(pred_price, ask, buy_threshold) ==
    IF ask > 0
    THEN Min(MulDiv(1000000000, Abs(pred_price - ask), ask * Max(buy_threshold, 10)),
             120 * CONF_SCALE)
    ELSE 0

\* A tick was evaluated in the last step.
TickEvaluated == ev.handler = "PRICE_UPDATE" /\ ev.stage \notin {"off", "throttled", "error"}

\* C33: for every buy_threshold, 0 and values below 0.1 included, the raw
\* confidence of an evaluation is min(|predicted_change_pct| /
\* max(buy_threshold / 1000, 0.0001) * 100, 120), and lies in [0, 120].
C33_RawConfidence ==
    TickEvaluated
        => /\ fusion.state.ai_confidence
                  = FlooredConfidence(market.prediction, market.ask, settings.buy_threshold)
           /\ fusion.state.ai_confidence >= 0
           /\ fusion.state.ai_confidence <= 120 * CONF_SCALE


\* |predicted_change_pct| of a price p is at least that of a price q, the ask
\* being the same.
MovesAtLeast(p, q, ask) == Abs(p - ask) >= Abs(q - ask)

\* C34: with the ask and buy_threshold of an evaluation, no predicted price
\* with a larger |predicted_change_pct| has a smaller raw confidence, and
\* none with a smaller one has a larger raw confidence; the raw confidence
\* never exceeds 120.
C34_ConfidenceMonotone ==
    TickEvaluated
        => /\ \A p \in Predictions :
                  /\ MovesAtLeast(p, market.prediction, market.ask)
                         => RawConfidence(p, market.ask, settings.buy_threshold)
                                >= fusion.state.ai_confidence
                  /\ MovesAtLeast(market.prediction, p, market.ask)
                         => RawConfidence(p, market.ask, settings.buy_threshold)
                                <= fusion.state.ai_confidence
           /\ fusion.state.ai_confidence <= 120 * CONF_SCALE

\* A move beyond the threshold was evaluated at the cap, and a smaller move
\* has a smaller confidence.
C34_Witness ==
    /\ TickEvaluated
    /\ market.ask = 100000
    /\ market.prediction = 100200
    /\ settings.buy_threshold = 75
    /\ fusion.state.ai_confidence = 120 * CONF_SCALE
    /\ RawConfidence(100040, market.ask, settings.buy_threshold) < 120 * CONF_SCALE


\* C35: after every evaluation, however it ends, the confidence kept on the
\* market is finalConfidence clamped to [0, 100]; and in no state is it
\* below 0 or above 100.
C35_DisplayedConfidence ==
    /\ (ev.handler = "PRICE_UPDATE" /\ ev.stage \notin {"off", "throttled", "error"})
           => market.confidence = Clamp(fusion.run.final_conf, 0, 100 * CONF_SCALE)
    /\ market.confidence >= 0
    /\ market.confidence <= 100 * CONF_SCALE


-----------------------------------------------------------------------------
(* The commands of the window: the range request of                        *)
(* MainWindow._request_history_sync (main_window.py 324-336), the trade    *)
(* buttons (715-716), the SL/TP sync (730-735), and the ticket and sync    *)
(* requests that AppState._on_trade_command handles by name.               *)

\* main_window.py 324-336: the TRADE_COMMAND event of a range request
RequestHistorySync(symbol, tf, start, end) ==
    [action |-> "DATA_SYNC_RANGE", symbol |-> symbol, tf |-> tf, start |-> start, end |-> end]

Timeframes == { "H1", "M15" }

Dates == { "2024.01.01", "2024.01.31" }

CommandInstants == {2}

CommandSettings == { [TradeSettings EXCEPT !.symbol = "EURUSD"] }

CommandRequests ==
    { RequestHistorySync("XAUUSD", "M15", "2024.01.01", "2024.01.31"),
      [action |-> "DATA_SYNC", symbol |-> "XAUUSD", tf |-> "M15", bars |-> "5000"],
      [action |-> "BUY"],
      [action |-> "CLOSE_TICKET", ticket |-> 1],
      [action |-> "MODIFY_TICKET", ticket |-> 1, sl |-> 99900, tp |-> 100200] }

NextCommand ==
    \/ Advance(CommandInstants)
    \/ TradeCommand(CommandRequests)
    \/ SettingsUpdate(CommandSettings)
    \/ Poll

SpecCommand == Init /\ [][NextCommand]_vars

\* The action enum of a Command.
CommandEnum ==
    { "BUY", "SELL", "CLOSE_ALL", "CLOSE_WIN", "CLOSE_LOSS", "CLOSE_TICKET",
      "MODIFY_TICKET", "CHANGE_SYMBOL", "DATA_SYNC", "DATA_SYNC_RANGE" }

\* The text of a field, as the f-string of the command renders it.
Text(x) == ToString(x)

Texts(S) == { Text(x) : x \in S }

\* The arguments of the command are those of its action.
OwnArguments(cmd) ==
    CASE cmd[1] \in {"CLOSE_TICKET", "MODIFY_TICKET"} -> Text(cmd[2]) # Text(None)
      [] cmd[1] \in {"BUY", "SELL"} -> Text(cmd[3]) = Text(settings.lot)
      [] cmd[1] = "DATA_SYNC" -> Text(cmd[3]) \in Texts(Timeframes)
      [] cmd[1] = "DATA_SYNC_RANGE" ->
             /\ Text(cmd[3]) \in Texts(Timeframes)
             /\ Text(cmd[4]) \in Texts(Dates)
             /\ Text(cmd[5]) \in Texts(Dates)
      [] OTHER -> TRUE

\* C36 as claimed: every string placed in the command queue has five fields,
\* the first an action of the Command enum, the others the arguments of that
\* action: the ticket for CLOSE_TICKET and MODIFY_TICKET, the lot for BUY and
\* SELL, the timeframe for DATA_SYNC, the timeframe and the range for
\* DATA_SYNC_RANGE.
C36_CommandFields ==
    [][ \A i \in 1..Len(Appended) :
            /\ Len(Appended[i]) = 5
            /\ Appended[i][1] \in CommandEnum
            /\ OwnArguments(Appended[i]) ]_vars


-----------------------------------------------------------------------------
\* The protective levels of an entry lie strictly on their sides of the ask.
ProtectiveSides(cmd, ask) ==
    /\ cmd[1] = "BUY" => (cmd[4] < ask /\ ask < cmd[5])
    /\ cmd[1] = "SELL" => (cmd[5] < ask /\ ask < cmd[4])

\* C37 as claimed: every automated entry has its stop-loss and take-profit
\* strictly on the correct sides of the ask, sl < ask < tp for a BUY and
\* tp < ask < sl for a SELL, whatever the ATR at the evaluation, 0 included.
C37_ProtectiveSides ==
    [][ (ev'.handler = "PRICE_UPDATE" /\ ev'.stage = "emitted")
            => \A i \in 1..Len(Appended) :
                   Appended[i][1] \in {"BUY", "SELL"} => ProtectiveSides(Appended[i], market'.ask) ]_vars


-----------------------------------------------------------------------------
(* The position cap over several evaluations: ticks 30 s and 60 s after    *)
(* start-up, with account reports below and at a cap of one position.      *)

CapInstants == {60, 120}

CapTicks == { MarketData("XAUUSD", 99990, 100000, TRUE) }

CapOutputs == { Predicted(100070, 70, 10, 99990, 99950, 50, 99990, 30) }   \* up 93 %

CapFeeds == { << >> }

CapAccounts == { AccountData(1000, 1000, 0, 0), AccountData(1000, 1000, 0, 1) }

CapSettings == { [TradeSettings EXCEPT !.auto_trade = TRUE, !.max_positions = 1] }

NextCap ==
    \/ Advance(CapInstants)
    \/ PriceUpdate(CapTicks, CapOutputs, CapFeeds)
    \/ AccountUpdate(CapAccounts)
    \/ SettingsUpdate(CapSettings)

SpecCap == Init /\ [][NextCap]_vars

\* The automated entries emitted since the agent last reported the account.
EntriesSinceReport == { i \in AutoEntries : i > reported }

\* C38 as claimed: once the agent has reported the account, the reported
\* position count plus the number of automated entries emitted since that
\* report never exceeds max_positions.
C38_PositionCap ==
    (account.balance > 0 /\ EntriesSinceReport # {})
        => account.position_count + Cardinality(EntriesSinceReport) <= settings.max_positions


-----------------------------------------------------------------------------
\* The MODIFY_TICKET commands for a ticket that the last step queued.
Modifications(ticket) ==
    { i \in 1..Len(Appended) : Appended[i][1] = "MODIFY_TICKET" /\ Appended[i][2] = ticket }

\* C39 as claimed: one sweep of a position snapshot queues at most one
\* MODIFY_TICKET per ticket: break-even and trailing do not both fire for one
\* position.
C39_OneModificationPerSweep ==
    [][ ev'.handler = "POSITIONS_UPDATE"
            => \A ticket \in Tickets : Cardinality(Modifications(ticket)) <= 1 ]_vars


-----------------------------------------------------------------------------
(* EventManager.emit (core/events.py 31-40) when a handler subscribes or   *)
(* unsubscribes a handler of the emitted type during its call.  The for    *)
(* statement of line 33 iterates over the list held in _listeners itself:  *)
(* its iterator keeps an index into the list, and the loop ends when the   *)
(* index reaches the length the list has at that moment.                   *)

\* What a handler does to the listeners during its call.
Quiet == [op |-> "none", h |-> None]

Reenter(listeners, type, does) ==
    CASE does.op = "subscribe"   -> subscribe(listeners, type, does.h)
      [] does.op = "unsubscribe" -> unsubscribe(listeners, type, does.h)
      [] OTHER                   -> listeners

RECURSIVE Iterate(_, _, _, _, _)

\* Lines 33-38: the loop from the iterator's index i on; trace are the calls made so far
Iterate(listeners, type, does, i, trace) ==
    IF i > Len(listeners[type])
    THEN [listeners |-> listeners, trace |-> trace]
    ELSE LET callback == listeners[type][i]
         IN  Iterate(Reenter(listeners, type, does[callback]), type, does, i + 1,
                     trace \o << Step("call", callback, type, 0), Step("return", callback, type, 0) >>)

\* Lines 31-40
EmitReentrant(listeners, type, does) ==
    LET n == Iterate(listeners, type, does, 1, << Step("emit", None, type, 0) >>)
    IN  [listeners |-> n.listeners, trace |-> Append(n.trace, Step("emit_return", None, type, 0))]

ReentrantTypes == { "LOG_MESSAGE", "MARKET_STATUS" }

\* What each handler does during its call: the window's handler leaves the
\* listeners alone; an outside handler may subscribe or unsubscribe an outside
\* handler, itself included.
Behaviours ==
    { does \in [ OutsideCallbacks \cup {"MainWindow._on_log_message"} ->
                   {Quiet} \cup [op : {"subscribe", "unsubscribe"}, h : OutsideCallbacks] ] :
        does["MainWindow._on_log_message"] = Quiet }

EmitDuring(types, behaviours) ==
    /\ \E type \in types, does \in behaviours :
           LET e == EmitReentrant(bus.listeners, type, does)
           IN  /\ bus' = [listeners |-> e.listeners,
                          emit |-> [type |-> type, faulty |-> {}, trace |-> e.trace, raised |-> FALSE]]
               /\ ev' = [handler |-> "emit", stage |-> type, resp |-> << >>, does |-> does]
    /\ BusUnchanged

NextReentrant ==
    \/ Subscribe(ReentrantTypes, OutsideCallbacks)
    \/ Unsubscribe(ReentrantTypes, OutsideCallbacks)
    \/ EmitDuring(ReentrantTypes, Behaviours)

SpecReentrant == Init /\ [][NextReentrant]_vars

\* The handler is among the listeners of the type.
Subscribed(listeners, type, h) == \E i \in 1..Len(listeners[type]) : listeners[type][i] = h

\* How many times the emit recorded in a trace called the handler.
Invocations(trace, h) ==
    Cardinality({ k \in 1..Len(trace) : trace[k].op = "call" /\ trace[k].h = h })

\* C40 as claimed: an emit calls every handler that is subscribed to the type
\* when the emit starts exactly once, even when a handler subscribes or
\* unsubscribes a handler of that type during the emit; no handler is listed
\* twice; and a handler that is not subscribed when the emit starts is called
\* only if a handler subscribes it during the emit.
C40_EmitSnapshot ==
    [][ ev'.handler = "emit"
            => \A h \in OutsideCallbacks \cup {"MainWindow._on_log_message"} :
                   /\ Subscribed(bus.listeners, ev'.stage, h)
                          => Invocations(bus'.emit.trace, h) = 1
                   /\ Invocations(bus'.emit.trace, h) <= 1
                   /\ ~Subscribed(bus.listeners, ev'.stage, h) /\ Invocations(bus'.emit.trace, h) > 0
                          => \E g \in DOMAIN ev'.does : ev'.does[g] = [op |-> "subscribe", h |-> h] ]_vars

=============================================================================
